---- MODULE Spec2Model ----
(***************************************************************************)
(* A model of the FactSet data-access layer: the corporate-action price    *)
(* adjuster (global_prices.py), the field-to-table resolver and the        *)
(* fundamentals fetch (fundamentals.py), the calendar join (metadata.py),  *)
(* the fundamentals panel (orchestrator.py) and the estimates loader       *)
(* (estimates.py).                                                         *)
(*                                                                         *)
(* Each subsystem has its own specification (SpecAdj, SpecResolve,         *)
(* SpecFund, SpecEst); the variables of the other subsystems stay at their *)
(* idle values.                                                            *)
(***************************************************************************)
EXTENDS Integers, Sequences, FiniteSets, TLC

VARIABLES
    \* ---- price adjuster (global_prices.py)
    pl_prices,        \* price observations, rows [ISIN, price_date]
    pl_adj,           \* adjustment events, rows [ISIN, effective_date, factor]
    todo_isins,       \* entities of pl_prices["ISIN"].unique() not yet visited
    result_frames,    \* rows [ISIN, price_date, cum_factor] appended so far
    pc_adj,           \* "start" | "loop" | "done"
    \* ---- field resolver (fundamentals.py)
    fundamental_tables,  \* the catalog: table names in the order the database lists them
    db_columns,          \* information_schema.columns: table -> column names as stored
    table_columns_cache, \* _table_columns_cache: table -> lower-cased column names
    column_queries,      \* the tables whose columns were queried, in order
    req_fields,          \* the requested field list
    req_frequency,       \* the requested frequency tag
    resolved,            \* per fallback flag: the last resolution map returned
    warned,              \* per fallback flag: the fields warnings.warn was called for
    \* ---- fundamentals fetch and panel (fundamentals.py, metadata.py, orchestrator.py)
    req_fallback,        \* the fallback flag of the request
    start_date,          \* the requested window, inclusive
    end_date,
    failing_tables,      \* the tables whose SELECT makes the database call raise
    fund_out,            \* what get_fundamentals returned: dataframes, field_table_map
    fund_panel,          \* what load_fundamentals returned
    pc_fund,             \* "start" | "fetched" | "done" | "raised"
    \* ---- estimates loader (estimates.py)
    fe_items,            \* the requested estimate items
    isin_map,            \* get_isin_map: ISIN -> fsym_regional_id
    fe_db,               \* per candidate table: "raise", or the rows it stores
    tables_left,         \* the candidate tables not yet tried, in order
    collected,           \* the non-empty frames fetched so far
    found_items,         \* the items seen in a fetched frame
    fe_queries,          \* the queries issued: [table, items]
    fe_result,           \* what get_estimates returned
    pc_est,              \* "start" | "loop" | "done" | "raised"
    \* ---- calendar join on its own (metadata.py)
    join_dfs,            \* the list of series handed to join_on_calendar
    join_result,         \* what join_on_calendar returned: [raised, df]
    pc_join,             \* "start" | "done" | "raised"
    \* ---- orchestrator entry points (orchestrator.py)
    est_tables,          \* load_estimates: the requested table types
    est_items,           \* load_estimates: the requested items
    estimates_result,    \* load_estimates: table type -> frame
    pc_orch,             \* "start" | "done" | "raised"
    \* ---- price loader (global_prices.py) and load_prices (orchestrator.py)
    gp_isins,            \* the requested identifiers
    gp_fields,           \* the requested price fields
    gp_adjust,           \* the adjust flag
    gp_start,            \* the requested window, inclusive
    gp_end,
    gp_result,           \* what the call returned: [raised, df]
    gp_warnings,         \* the warnings issued, in order
    pc_gp,               \* "start" | "done" | "raised"
    \* ---- adjust_columns on its own (global_prices.py)
    ac_df,               \* the frame handed to adjust_columns
    ac_value_cols,       \* its value_cols argument
    ac_result,           \* what adjust_columns returned: [raised, df]
    pc_ac,               \* "start" | "done" | "raised"
    db_log               \* the database calls issued, in order

vars_adj == <<pl_prices, pl_adj, todo_isins, result_frames, pc_adj>>

vars_res == <<fundamental_tables, db_columns, table_columns_cache, column_queries,
              req_fields, req_frequency, resolved, warned>>

vars_fund == <<req_fallback, start_date, end_date, failing_tables, fund_out,
               fund_panel, pc_fund>>

vars_est == <<fe_items, isin_map, fe_db, tables_left, collected, found_items,
              fe_queries, fe_result, pc_est>>

vars_join == <<join_dfs, join_result, pc_join>>

vars_orch == <<est_tables, est_items, estimates_result, pc_orch>>

vars_gp == <<gp_isins, gp_fields, gp_adjust, gp_start, gp_end, gp_result,
             gp_warnings, pc_gp>>

vars_ac == <<ac_df, ac_value_cols, ac_result, pc_ac>>

vars_more == <<vars_join, vars_orch, vars_gp, vars_ac>>

vars == <<vars_adj, vars_res, vars_fund, vars_est, vars_more, db_log>>

\* A subsystem that takes no part in a specification stays idle.
IdleAdj ==
    /\ pl_prices = <<>>
    /\ pl_adj = <<>>
    /\ todo_isins = {}
    /\ result_frames = <<>>
    /\ pc_adj = "idle"

IdleRes ==
    /\ fundamental_tables = <<>>
    /\ db_columns = <<>>
    /\ table_columns_cache = <<>>
    /\ column_queries = <<>>
    /\ req_fields = <<>>
    /\ req_frequency = "qf"
    /\ resolved = <<>>
    /\ warned = <<>>

IdleFund ==
    /\ req_fallback = FALSE
    /\ start_date = 0
    /\ end_date = 0
    /\ failing_tables = {}
    /\ fund_out = <<>>
    /\ fund_panel = <<>>
    /\ pc_fund = "idle"

IdleEst ==
    /\ fe_items = {}
    /\ isin_map = <<>>
    /\ fe_db = <<>>
    /\ tables_left = <<>>
    /\ collected = <<>>
    /\ found_items = {}
    /\ fe_queries = <<>>
    /\ fe_result = <<>>
    /\ pc_est = "idle"

IdleJoin ==
    /\ join_dfs = <<>>
    /\ join_result = <<>>
    /\ pc_join = "idle"

IdleOrch ==
    /\ est_tables = <<>>
    /\ est_items = <<>>
    /\ estimates_result = <<>>
    /\ pc_orch = "idle"

IdleGp ==
    /\ gp_isins = <<>>
    /\ gp_fields = <<>>
    /\ gp_adjust = FALSE
    /\ gp_start = 0
    /\ gp_end = 0
    /\ gp_result = <<>>
    /\ gp_warnings = <<>>
    /\ pc_gp = "idle"

IdleAc ==
    /\ ac_df = <<>>
    /\ ac_value_cols = <<>>
    /\ ac_result = <<>>
    /\ pc_ac = "idle"

IdleMore == IdleJoin /\ IdleOrch /\ IdleGp /\ IdleAc

----------------------------------------------------------------------------
(* Bounds of the model. *)

MaxDate == 3
MaxObs == 2
MaxEvents == 2
MaxTables == 2
MaxFields == 2
MaxEstRows == 2
MaxTypes == 2
MaxItems == 2
MaxSeries == 2
MaxSeriesRows == 2
MaxIsins == 2
MaxPriceFields == 2
MaxAdjustRows == 2

----------------------------------------------------------------------------
(* Generic helpers. *)

Min(S) == CHOOSE x \in S : \A y \in S : x <= y

SeqsUpTo(S, n) == UNION {[1..k -> S] : k \in 0..n}

RECURSIVE Gcd(_, _)
Gcd(a, b) == IF b = 0 THEN a ELSE Gcd(b, a % b)

\* Stable sort of s by the integer keys key[i] of its rows (DataFrame.sort):
\* row i goes to the position given by the number of rows that sort before it.
SortByKey(s, key) ==
    LET n == Len(s)
        rank(i) == 1 + Cardinality({j \in 1..n :
                          key[j] < key[i] \/ (key[j] = key[i] /\ j < i)})
    IN  [p \in 1..n |-> s[CHOOSE i \in 1..n : rank(i) = p]]

----------------------------------------------------------------------------
(* Price adjuster: PriceDataLoader.compute_adjustment_factors.              *)
(* A factor is a float; the model keeps it exact as a reduced fraction      *)
(* <<numerator, denominator>>, and NullFactor is SQL NULL / None.           *)

NullFactor == <<0, 0>>
OneFactor == <<1, 1>>

Rat(n, d) == LET g == Gcd(n, d) IN <<n \div g, d \div g>>

\* cum_factor *= factor
MulFactor(a, b) == Rat(a[1] * b[1], a[2] * b[2])

\* a >= b on floats
GeqFactor(a, b) == a[1] * b[2] >= b[1] * a[2]

ISINS == {"E1", "E2"}
Dates == 1..MaxDate
Factors == {NullFactor, <<1, 2>>, <<2, 1>>}

PriceRows == [ISIN : ISINS, price_date : Dates]
AdjRows == [ISIN : ISINS, effective_date : Dates, factor : Factors]

\* Rank of an entity key in sort order.
IsinRank(i) == IF i = "E1" THEN 1 ELSE 2

\* _prepare_pl_dfs hands both frames over sorted by (entity, date).
SortedBy(keys) == \A i \in 1..(Len(keys) - 1) : keys[i] <= keys[i + 1]
PriceKey(r) == IsinRank(r.ISIN) * (MaxDate + 1) + r.price_date
AdjKey(r) == IsinRank(r.ISIN) * (MaxDate + 1) + r.effective_date

PriceFrames ==
    {s \in SeqsUpTo(PriceRows, MaxObs) : SortedBy([i \in 1..Len(s) |-> PriceKey(s[i])])}
AdjFrames ==
    {s \in SeqsUpTo(AdjRows, MaxEvents) : SortedBy([i \in 1..Len(s) |-> AdjKey(s[i])])}

\* pl_prices["ISIN"].unique()
UniqueIsins(frame) == {frame[i].ISIN : i \in 1..Len(frame)}

\* future_factors = [factor for date, factor in zip(adj_dates, adj_factors)
\*                   if date > price_date]
future_factors_ge(adj_isin, price_date) ==
    LET After(e) == e.effective_date >= price_date
        kept == SelectSeq(adj_isin, After)
    IN  [i \in 1..Len(kept) |-> kept[i].factor]

future_factors(adj_isin, price_date) ==
    LET After(e) == e.effective_date > price_date
        kept == SelectSeq(adj_isin, After)
    IN  [i \in 1..Len(kept) |-> kept[i].factor]

\* cum_factor = 1.0; for factor in future_factors:
\*     if factor is not None: cum_factor *= factor
RECURSIVE cum_factor_null_zero(_, _)
cum_factor_null_zero(acc, factors) ==
    IF factors = <<>> THEN acc
    ELSE cum_factor_null_zero(
             IF Head(factors) # NullFactor THEN MulFactor(acc, Head(factors))
             ELSE <<0, 1>>,
             Tail(factors))

RECURSIVE cum_factor_from(_, _)
cum_factor_from(acc, factors) ==
    IF factors = <<>> THEN acc
    ELSE cum_factor_from(
             IF Head(factors) # NullFactor THEN MulFactor(acc, Head(factors))
             ELSE acc,
             Tail(factors))

\* One iteration of `for isin in pl_prices["ISIN"].unique()`: the rows of the
\* entity with their cum_factor column.
prices_isin_frame(prices, adj, isin) ==
    LET OfIsinP(r) == r.ISIN = isin
        OfIsinA(e) == e.ISIN = isin
        p_rows == SelectSeq(prices, OfIsinP)
        a_rows == SelectSeq(adj, OfIsinA)
        prices_isin == SortByKey(p_rows, [i \in 1..Len(p_rows) |-> p_rows[i].price_date])
        adj_isin == SortByKey(a_rows, [i \in 1..Len(a_rows) |-> a_rows[i].effective_date])
    IN  [i \in 1..Len(prices_isin) |->
            [ISIN |-> isin,
             price_date |-> prices_isin[i].price_date,
             cum_factor |->
                 IF Len(adj_isin) = 0 THEN OneFactor
                 ELSE cum_factor_from(OneFactor,
                          future_factors(adj_isin, prices_isin[i].price_date))]]

InitAdj ==
    /\ pl_prices \in PriceFrames
    /\ pl_adj \in AdjFrames
    /\ todo_isins = {}
    /\ result_frames = <<>>
    /\ pc_adj = "start"
    /\ IdleRes /\ IdleFund /\ IdleEst /\ IdleMore
    /\ db_log = <<>>

\* result_frames = []; the set of entities to visit is fixed on entry.
ComputeStart ==
    /\ pc_adj = "start"
    /\ todo_isins' = UniqueIsins(pl_prices)
    /\ result_frames' = <<>>
    /\ pc_adj' = "loop"
    /\ UNCHANGED <<pl_prices, pl_adj, vars_res, vars_fund, vars_est, vars_more, db_log>>

\* The body of the loop for one entity; unique() fixes no order.
ComputeIsin ==
    /\ pc_adj = "loop"
    /\ \E isin \in todo_isins :
          /\ result_frames' = result_frames \o prices_isin_frame(pl_prices, pl_adj, isin)
          /\ todo_isins' = todo_isins \ {isin}
    /\ UNCHANGED <<pl_prices, pl_adj, pc_adj, vars_res, vars_fund, vars_est, vars_more, db_log>>

\* return pl.concat(result_frames) if result_frames else pl_prices.with_columns(1.0)
ComputeReturn ==
    /\ pc_adj = "loop"
    /\ todo_isins = {}
    /\ pc_adj' = "done"
    /\ UNCHANGED <<pl_prices, pl_adj, todo_isins, result_frames,
                   vars_res, vars_fund, vars_est, vars_more, db_log>>

NextAdj == ComputeStart \/ ComputeIsin \/ ComputeReturn

SpecAdj == InitAdj /\ [][NextAdj]_vars

----------------------------------------------------------------------------
(* Properties of the price adjuster. *)

\* The product of the non-null factors of the events of `frame` at the
\* positions I, taken as a set (no order, no scan).
RECURSIVE ProductOver(_, _)
ProductOver(frame, I) ==
    IF I = {} THEN OneFactor
    ELSE LET i == CHOOSE j \in I : TRUE
             rest == ProductOver(frame, I \ {i})
         IN  IF frame[i].factor = NullFactor THEN rest
             ELSE MulFactor(frame[i].factor, rest)

\* The events of entity isin with lo < effective_date <= hi.
EventsBetween(isin, lo, hi) ==
    {i \in 1..Len(pl_adj) :
        /\ pl_adj[i].ISIN = isin
        /\ pl_adj[i].effective_date > lo
        /\ pl_adj[i].effective_date <= hi}

EventsAfter(isin, d) == EventsBetween(isin, d, MaxDate + 1)

CountRows(frame, isin, d) ==
    Cardinality({i \in 1..Len(frame) :
                    frame[i].ISIN = isin /\ frame[i].price_date = d})

\* The scenario of the specification: E1 observed on 2021-01-01 (date 1) and
\* 2021-02-01 (date 3), one event on 2021-01-15 (date 2) with factor 0.5.
ScenarioInputs ==
    /\ pl_prices = <<[ISIN |-> "E1", price_date |-> 1],
                     [ISIN |-> "E1", price_date |-> 3]>>
    /\ pl_adj = <<[ISIN |-> "E1", effective_date |-> 2, factor |-> <<1, 2>>]>>

\* C1: every observation (entity, d) gets the product of the factors of the
\* entity's events with effective_date > d, an event dated d excluded and a
\* null factor counted as 1.0; no such event gives 1.0; every observation is
\* in the result once; the scenario yields 0.5 and 1.0.
C1_CumulativeFactor ==
    pc_adj = "done" =>
        /\ \A k \in 1..Len(result_frames) :
              LET r == result_frames[k]
              IN  r.cum_factor = ProductOver(pl_adj, EventsAfter(r.ISIN, r.price_date))
        /\ \A i \in ISINS, d \in Dates :
              CountRows(result_frames, i, d) = CountRows(pl_prices, i, d)
        /\ ScenarioInputs =>
              result_frames =
                  <<[ISIN |-> "E1", price_date |-> 1, cum_factor |-> <<1, 2>>],
                    [ISIN |-> "E1", price_date |-> 3, cum_factor |-> OneFactor]>>

\* C1 witness: the scenario has been computed, with 0.5 for the earlier date.
C1_Witness ==
    /\ pc_adj = "done"
    /\ ScenarioInputs
    /\ Len(result_frames) = 2
    /\ result_frames[1].cum_factor = <<1, 2>>

\* C2 as stated: for one entity and d1 < d2, factor(d1) >= factor(d2), for
\* every set of events.
C2_Original ==
    pc_adj = "done" =>
        \A k1, k2 \in 1..Len(result_frames) :
            LET r1 == result_frames[k1]
                r2 == result_frames[k2]
            IN  (r1.ISIN = r2.ISIN /\ r1.price_date < r2.price_date)
                    => GeqFactor(r1.cum_factor, r2.cum_factor)

\* Every non-null factor of the entity's events in (d1, d2] is >= 1.
NoShrinkBetween(isin, d1, d2) ==
    \A i \in EventsBetween(isin, d1, d2) :
        pl_adj[i].factor # NullFactor => GeqFactor(pl_adj[i].factor, OneFactor)

\* C2 amended: for one entity and d1 < d2, factor(d1) is factor(d2) times the
\* product of the non-null factors of the events in (d1, d2]; it is >=
\* factor(d2) when each of those factors is >= 1.
C2_MonotoneWhenNoShrink ==
    pc_adj = "done" =>
        \A k1, k2 \in 1..Len(result_frames) :
            LET r1 == result_frames[k1]
                r2 == result_frames[k2]
            IN  (r1.ISIN = r2.ISIN /\ r1.price_date < r2.price_date) =>
                    /\ r1.cum_factor =
                          MulFactor(r2.cum_factor,
                              ProductOver(pl_adj,
                                  EventsBetween(r1.ISIN, r1.price_date, r2.price_date)))
                    /\ NoShrinkBetween(r1.ISIN, r1.price_date, r2.price_date)
                          => GeqFactor(r1.cum_factor, r2.cum_factor)

\* C2 witness: two observations of one entity with a factor-2 event between
\* them, the earlier one with the strictly larger factor.
C2_Witness ==
    /\ pc_adj = "done"
    /\ \E k1, k2 \in 1..Len(result_frames) :
          LET r1 == result_frames[k1]
              r2 == result_frames[k2]
          IN  /\ r1.ISIN = r2.ISIN
              /\ r1.price_date < r2.price_date
              /\ \E i \in EventsBetween(r1.ISIN, r1.price_date, r2.price_date) :
                    pl_adj[i].factor = <<2, 1>>
              /\ NoShrinkBetween(r1.ISIN, r1.price_date, r2.price_date)
              /\ ~GeqFactor(r2.cum_factor, r1.cum_factor)

----------------------------------------------------------------------------
(* Field resolver: FundamentalDataLoader.                                   *)

None == "None"

BasicQf == "ff_v3.ff_basic_qf"
AdvancedQf == "ff_v3.ff_advanced_qf"
SegregAf == "ff_v3.ff_segreg_af"

\* The tables the schema may hold, the names a caller may ask for, and the
\* column names as the database stores them.
SchemaTables == {BasicQf, AdvancedQf, SegregAf}
FieldNames == {"ff_eps", "FF_EPS", "ff_sales"}
StoredColumns == {"FF_EPS", "ff_sales"}
Frequencies == {"qf", "QF", "cf"}

\* str.lower()
Lower(x) ==
    CASE x = "FF_EPS" -> "ff_eps"
      [] x = "QF" -> "qf"
      [] OTHER -> x

TABLE_PRIORITY_MAP ==
    [qf |-> <<"ff_v3.ff_basic_qf", "ff_v3.ff_advanced_qf",
              "ff_v3.ff_basic_der_qf", "ff_v3.ff_advanced_der_qf">>,
     af |-> <<"ff_v3.ff_basic_af", "ff_v3.ff_advanced_af",
              "ff_v3.ff_basic_der_af", "ff_v3.ff_advanced_der_af">>,
     ltm |-> <<"ff_v3.ff_basic_ltm", "ff_v3.ff_advanced_ltm",
               "ff_v3.ff_basic_der_ltm", "ff_v3.ff_advanced_der_ltm">>,
     ytd |-> <<"ff_v3.ff_basic_ytd", "ff_v3.ff_advanced_ytd",
               "ff_v3.ff_basic_der_ytd", "ff_v3.ff_advanced_der_ytd">>,
     saf |-> <<"ff_v3.ff_basic_af", "ff_v3.ff_advanced_af",
               "ff_v3.ff_basic_der_af", "ff_v3.ff_advanced_der_af">>]

InSeq(x, s) == \E i \in 1..Len(s) : s[i] = x

\* table_priority = self.TABLE_PRIORITY_MAP.get(frequency.lower(), [])
table_priority_as_given(frequency) ==
    IF frequency \in DOMAIN TABLE_PRIORITY_MAP
    THEN TABLE_PRIORITY_MAP[frequency] ELSE <<>>

table_priority_of(frequency) ==
    IF Lower(frequency) \in DOMAIN TABLE_PRIORITY_MAP
    THEN TABLE_PRIORITY_MAP[Lower(frequency)] ELSE <<>>

\* _load_table_columns without the cache lookup: every call queries.
load_table_columns_uncached(st, db, table) ==
    LET cols == {Lower(c) : c \in db[table]}
    IN  [cache |-> [t \in DOMAIN st.cache \cup {table} |->
                       IF t = table THEN cols ELSE st.cache[t]],
         queries |-> Append(st.queries, table),
         cols |-> cols]

\* _load_table_columns(table) on the loader state st = [cache, queries]:
\* a cached table is answered from the cache, any other costs one query.
load_table_columns(st, db, table) ==
    IF table \in DOMAIN st.cache
    THEN [cache |-> st.cache, queries |-> st.queries, cols |-> st.cache[table]]
    ELSE LET cols == {Lower(c) : c \in db[table]}
         IN  [cache |-> st.cache @@ (table :> cols),
              queries |-> Append(st.queries, table),
              cols |-> cols]

\* if lower in cols
field_in_cols_exact(field, cols) == field \in cols

field_in_cols(field, cols) == Lower(field) \in cols

\* The inner loop of field_locations for one field, from catalog position k:
\* acc = [cache, queries, present_in].
RECURSIVE scan_tables(_, _, _, _, _)
scan_tables(field, tables, k, db, acc) ==
    IF k > Len(tables) THEN acc
    ELSE LET got == load_table_columns(acc, db, tables[k])
         IN  scan_tables(field, tables, k + 1, db,
                 [cache |-> got.cache,
                  queries |-> got.queries,
                  present_in |-> IF field_in_cols(field, got.cols)
                                 THEN Append(acc.present_in, tables[k])
                                 ELSE acc.present_in])

\* field_locations with one entry per list position instead of one per name.
RECURSIVE field_locations_per_position(_, _, _, _, _)
field_locations_per_position(fields, n, tables, db, acc) ==
    IF n > Len(fields) THEN acc
    ELSE LET f == fields[n]
             got == scan_tables(f, tables, 1, db,
                        [cache |-> acc.cache, queries |-> acc.queries,
                         present_in |-> <<>>])
         IN  field_locations_per_position(fields, n + 1, tables, db,
                 [cache |-> got.cache,
                  queries |-> got.queries,
                  mapping |-> [g \in DOMAIN acc.mapping \cup {f} |->
                                  IF g = f THEN got.present_in ELSE acc.mapping[g]],
                  keys |-> Append(acc.keys, f)])

\* field_locations(fields) from list position n:
\* acc = [cache, queries, mapping, keys]; keys is the dict's insertion order.
RECURSIVE field_locations(_, _, _, _, _)
field_locations(fields, n, tables, db, acc) ==
    IF n > Len(fields) THEN acc
    ELSE LET f == fields[n]
             got == scan_tables(f, tables, 1, db,
                        [cache |-> acc.cache, queries |-> acc.queries,
                         present_in |-> <<>>])
         IN  field_locations(fields, n + 1, tables, db,
                 [cache |-> got.cache,
                  queries |-> got.queries,
                  mapping |-> [g \in DOMAIN acc.mapping \cup {f} |->
                                  IF g = f THEN got.present_in ELSE acc.mapping[g]],
                  keys |-> IF InSeq(f, acc.keys) THEN acc.keys
                           ELSE Append(acc.keys, f)])

\* fallback=True: for preferred in table_priority: if preferred in tables ...
\* else: tables[0] if tables else None.  No warning on this branch.
resolve_fallback_catalog_order(tables, table_priority) ==
    LET InPriority(t) == InSeq(t, table_priority)
        filtered == SelectSeq(tables, InPriority)
    IN  [table |-> IF filtered # <<>> THEN filtered[1]
                   ELSE IF tables # <<>> THEN tables[1] ELSE None,
         warn |-> FALSE]

resolve_fallback(tables, table_priority) ==
    LET hits == {i \in 1..Len(table_priority) : InSeq(table_priority[i], tables)}
    IN  [table |-> IF hits # {} THEN table_priority[Min(hits)]
                   ELSE IF tables # <<>> THEN tables[1] ELSE None,
         warn |-> FALSE]

\* The fallback=False branch taking any table that has the field when no
\* priority table has it.
resolve_priority_only_any_table(tables, table_priority) ==
    LET InPriority(t) == InSeq(t, table_priority)
        filtered == SelectSeq(tables, InPriority)
    IN  IF filtered # <<>> THEN [table |-> filtered[1], warn |-> FALSE]
        ELSE IF tables # <<>> THEN [table |-> tables[1], warn |-> TRUE]
        ELSE [table |-> None, warn |-> TRUE]

\* fallback=False: filtered = [t for t in tables if t in table_priority];
\* filtered[0] if filtered, else a warning and None.
resolve_priority_only(tables, table_priority) ==
    LET InPriority(t) == InSeq(t, table_priority)
        filtered == SelectSeq(tables, InPriority)
    IN  IF filtered # <<>> THEN [table |-> filtered[1], warn |-> FALSE]
        ELSE [table |-> None, warn |-> TRUE]

\* The fields of the dict, in insertion order, that drew a warning.
warned_fields(keys, outcome) == SelectSeq(keys, LAMBDA f : outcome[f].warn)

\* The loop `for field, tables in locations.items()` of
\* _resolve_field_table_mapping, and its return value.
resolve_locations(locations, table_priority, fallback) ==
    LET outcome == [f \in DOMAIN locations.mapping |->
                       IF fallback
                       THEN resolve_fallback(locations.mapping[f], table_priority)
                       ELSE resolve_priority_only(locations.mapping[f], table_priority)]
    IN  [resolved |-> [f \in DOMAIN outcome |-> outcome[f].table],
         keys |-> locations.keys,
         warned |-> warned_fields(locations.keys, outcome),
         cache |-> locations.cache,
         queries |-> locations.queries]

\* _resolve_field_table_mapping(fields, frequency, fallback) on the loader
\* state st: the resolution map, the warnings in emission order, the new cache.
resolve_field_table_mapping(fields, frequency, fallback, tables, db, st) ==
    resolve_locations(
        field_locations(fields, 1, tables, db,
            [cache |-> st.cache, queries |-> st.queries,
             mapping |-> <<>>, keys |-> <<>>]),
        table_priority_of(frequency), fallback)

\* The injective sequences over S of length at most n: a schema lists a table
\* once.  A listed table stores at least one of the modelled columns.
Catalogs(S, n) ==
    {s \in SeqsUpTo(S, n) : \A i, j \in 1..Len(s) : i # j => s[i] # s[j]}

NotCalled == [called |-> FALSE, map |-> <<>>]

\* __init__: the catalog is loaded, the column cache is empty.
InitRes ==
    /\ fundamental_tables \in Catalogs(SchemaTables, MaxTables)
    /\ db_columns \in [SchemaTables -> SUBSET StoredColumns]
    /\ \A t \in SchemaTables : InSeq(t, fundamental_tables) <=> db_columns[t] # {}
    /\ table_columns_cache = <<>>
    /\ column_queries = <<>>
    /\ req_fields \in SeqsUpTo(FieldNames, MaxFields)
    /\ req_frequency \in Frequencies
    /\ resolved = [fb \in BOOLEAN |-> NotCalled]
    /\ warned = [fb \in BOOLEAN |-> <<>>]
    /\ IdleAdj /\ IdleFund /\ IdleEst /\ IdleMore
    /\ db_log = <<>>

Resolve(fallback) ==
    \E r \in {resolve_field_table_mapping(req_fields, req_frequency, fallback,
                 fundamental_tables, db_columns,
                 [cache |-> table_columns_cache, queries |-> column_queries])} :
        /\ resolved' = [resolved EXCEPT ![fallback] = [called |-> TRUE, map |-> r.resolved]]
        /\ warned' = [warned EXCEPT ![fallback] = r.warned]
        /\ table_columns_cache' = r.cache
        /\ column_queries' = r.queries
        /\ db_log' = db_log \o SubSeq(r.queries, Len(column_queries) + 1, Len(r.queries))
        /\ UNCHANGED <<fundamental_tables, db_columns, req_fields, req_frequency,
                       vars_adj, vars_fund, vars_est, vars_more>>

ResolvePriorityOnly == Resolve(FALSE)

ResolveWithFallback == Resolve(TRUE)

NextRes == ResolvePriorityOnly \/ ResolveWithFallback

SpecRes == InitRes /\ [][NextRes]_vars

----------------------------------------------------------------------------
(* Properties of the field resolver. *)

\* The catalog tables whose stored columns, lower-cased, contain the
\* lower-cased field name, as positions in the catalog.
CandidatePositions(f) ==
    {k \in 1..Len(fundamental_tables) :
        Lower(f) \in {Lower(c) : c \in db_columns[fundamental_tables[k]]}}

CandidateTables(f) == {fundamental_tables[k] : k \in CandidatePositions(f)}

\* The priority list of the requested frequency, and the positions in it of
\* the tables that contain the field.
RequestPriority ==
    IF Lower(req_frequency) \in DOMAIN TABLE_PRIORITY_MAP
    THEN TABLE_PRIORITY_MAP[Lower(req_frequency)] ELSE <<>>

PriorityPositions(f) ==
    {i \in 1..Len(RequestPriority) : RequestPriority[i] \in CandidateTables(f)}

\* The earliest priority-list entry that contains the field, else None.
EarliestPriorityTable(f) ==
    IF PriorityPositions(f) # {}
    THEN RequestPriority[Min(PriorityPositions(f))] ELSE None

RequestedFields == {req_fields[n] : n \in 1..Len(req_fields)}

\* C3 as stated: with fallback=false every field maps to the earliest
\* priority-list entry among the tables containing it, whatever the catalog
\* order, and to None when no priority-list table contains it.
C3_PriorityOrderNoFallback ==
    resolved[FALSE].called =>
        /\ DOMAIN resolved[FALSE].map = RequestedFields
        /\ \A f \in RequestedFields :
              resolved[FALSE].map[f] = EarliestPriorityTable(f)

\* C4: with fallback=true every field maps to the earliest priority-list
\* entry that contains it; if there is none, to the first candidate in
\* catalog order; if no catalog table contains it, to None.
C4_FallbackResolution ==
    resolved[TRUE].called =>
        /\ DOMAIN resolved[TRUE].map = RequestedFields
        /\ \A f \in RequestedFields :
              resolved[TRUE].map[f] =
                  IF PriorityPositions(f) # {} THEN EarliestPriorityTable(f)
                  ELSE IF CandidatePositions(f) # {}
                       THEN fundamental_tables[Min(CandidatePositions(f))]
                       ELSE None

\* C4 witness: a fallback resolution of a field that sits in two priority
\* tables which the catalog lists against the priority order; the field went
\* to the earlier priority entry, not to the first table of the catalog.
C4_Witness ==
    /\ resolved[TRUE].called
    /\ \E f \in RequestedFields :
          /\ Cardinality(PriorityPositions(f)) = 2
          /\ fundamental_tables[Min(CandidatePositions(f))] # EarliestPriorityTable(f)
          /\ resolved[TRUE].map[f] = EarliestPriorityTable(f)

\* C5 as stated: a field present in exactly one catalog table resolves to
\* the same table with fallback=false and with fallback=true.
C5_Original ==
    (resolved[FALSE].called /\ resolved[TRUE].called) =>
        \A f \in RequestedFields :
            Cardinality(CandidateTables(f)) = 1 =>
                resolved[FALSE].map[f] = resolved[TRUE].map[f]

\* C5 amended: a field present in exactly one catalog table resolves to that
\* table under both flags when the table is in the priority list of the
\* frequency; when it is not, fallback=false gives None and fallback=true
\* gives the table.
C5_SingleTableResolution ==
    (resolved[FALSE].called /\ resolved[TRUE].called) =>
        \A f \in RequestedFields :
            Cardinality(CandidateTables(f)) = 1 =>
                LET t == CHOOSE u \in CandidateTables(f) : TRUE
                IN  /\ resolved[TRUE].map[f] = t
                    /\ resolved[FALSE].map[f] =
                          IF InSeq(t, RequestPriority) THEN t ELSE None

\* C5 witness: both flags have been resolved for a field whose only table is
\* a priority table, and both chose it.
C5_Witness ==
    /\ resolved[FALSE].called
    /\ resolved[TRUE].called
    /\ \E f \in RequestedFields :
          /\ Cardinality(CandidateTables(f)) = 1
          /\ resolved[FALSE].map[f] \in CandidateTables(f)
          /\ resolved[TRUE].map[f] = resolved[FALSE].map[f]

\* C7 as stated: whenever a requested field resolves to no table, under
\* either flag, a warning is emitted for that field.
C7_WarningForUnresolved ==
    \A fb \in BOOLEAN :
        resolved[fb].called =>
            \A f \in DOMAIN resolved[fb].map :
                resolved[fb].map[f] = None => InSeq(f, warned[fb])

----------------------------------------------------------------------------
(* Data frames.  A frame is [cols, rows]: the column names in order and the *)
(* rows in order, a row being a function from the column names to cells.    *)
(* A cell is Null or Some(v).                                               *)

Null == <<>>
Some(v) == <<v>>

Frame(cols, rows) == [cols |-> cols, rows |-> rows]

\* pl.DataFrame([]) / pl.DataFrame()
EmptyFrame == Frame(<<>>, <<>>)

ColSet(df) == {df.cols[i] : i \in 1..Len(df.cols)}

RECURSIVE Flatten(_)
Flatten(ss) == IF ss = <<>> THEN <<>> ELSE Head(ss) \o Flatten(Tail(ss))

\* df.drop(names)
DropCols(df, names) ==
    Frame(SelectSeq(df.cols, LAMBDA c : c \notin names),
          [i \in 1..Len(df.rows) |->
              [c \in (DOMAIN df.rows[i]) \ names |-> df.rows[i][c]]])

\* df.with_columns(pl.lit(None).alias(name)): replaces the column in place if
\* it exists, appends it otherwise.
WithNullColumn(df, name) ==
    Frame(IF name \in ColSet(df) THEN df.cols ELSE Append(df.cols, name),
          [i \in 1..Len(df.rows) |->
              [c \in (DOMAIN df.rows[i]) \cup {name} |->
                  IF c = name THEN Null ELSE df.rows[i][c]]])

\* left.join(right, left_on=lkeys, right_on=rkeys, how="left"): every left row
\* is kept, once per matching right row, or once with nulls; null keys match
\* nothing; the right key columns are coalesced away.
JoinMatches(l, right, lkeys, rkeys) ==
    SelectSeq(right.rows,
        LAMBDA r : \A k \in 1..Len(lkeys) :
            l[lkeys[k]] # Null /\ l[lkeys[k]] = r[rkeys[k]])

\* how="inner": a left row without a match is dropped.
InnerJoin(left, right, lkeys, rkeys) ==
    LET rkeyset == {rkeys[k] : k \in 1..Len(rkeys)}
        rest == SelectSeq(right.cols, LAMBDA c : c \notin rkeyset)
        restset == {rest[i] : i \in 1..Len(rest)}
        joined(l, m) == [c \in (DOMAIN l) \cup restset |->
                            IF c \in DOMAIN l THEN l[c] ELSE m[c]]
        expand(l) == LET ms == JoinMatches(l, right, lkeys, rkeys)
                     IN  [j \in 1..Len(ms) |-> joined(l, ms[j])]
    IN  Frame(left.cols \o rest,
              Flatten([i \in 1..Len(left.rows) |-> expand(left.rows[i])]))

LeftJoin(left, right, lkeys, rkeys) ==
    LET rkeyset == {rkeys[k] : k \in 1..Len(rkeys)}
        rest == SelectSeq(right.cols, LAMBDA c : c \notin rkeyset)
        restset == {rest[i] : i \in 1..Len(rest)}
        joined(l, m) == [c \in (DOMAIN l) \cup restset |->
                            IF c \in DOMAIN l THEN l[c] ELSE m[c]]
        nulls == [c \in restset |-> Null]
        expand(l) == LET ms == JoinMatches(l, right, lkeys, rkeys)
                     IN  IF ms = <<>> THEN <<joined(l, nulls)>>
                         ELSE [j \in 1..Len(ms) |-> joined(l, ms[j])]
    IN  Frame(left.cols \o rest,
              Flatten([i \in 1..Len(left.rows) |-> expand(left.rows[i])]))

\* The join raises ColumnNotFoundError when a key column is absent.
JoinRaises(left, right, lkeys, rkeys) ==
    \/ \E k \in 1..Len(lkeys) : lkeys[k] \notin ColSet(left)
    \/ \E k \in 1..Len(rkeys) : rkeys[k] \notin ColSet(right)

----------------------------------------------------------------------------
(* Calendar join: MetaDataJoiner.join_on_calendar.                          *)

\* SELECT ref_date FROM ref_v2.ref_calendar_dates: broader than any window.
Calendar == [i \in 1..(MaxDate + 2) |-> i - 1]

CalendarFrame ==
    Frame(<<"ref_date">>, [i \in 1..Len(Calendar) |-> [c \in {"ref_date"} |-> Some(Calendar[i])]])

\* The loop body with every common column dropped, the join keys included.
join_one_dropping_keys(result, df) ==
    LET dc == IF "price_date" \in ColSet(df) THEN "price_date" ELSE "date"
        on_isin == "ISIN" \in ColSet(result) /\ "ISIN" \in ColSet(df)
        join_keys_left == IF on_isin THEN <<"ref_date", "ISIN">> ELSE <<"ref_date">>
        join_keys_right == IF on_isin THEN <<dc, "ISIN">> ELSE <<dc>>
        right == DropCols(df, ColSet(result) \cap ColSet(df))
    IN  IF JoinRaises(result, right, join_keys_left, join_keys_right)
        THEN [raised |-> TRUE, df |-> result]
        ELSE [raised |-> FALSE,
              df |-> LeftJoin(result, right, join_keys_left, join_keys_right)]

\* One iteration of `for df in dfs` on the joined result so far.
join_one(result, df) ==
    LET dc == IF "price_date" \in ColSet(df) THEN "price_date" ELSE "date"
        on_isin == "ISIN" \in ColSet(result) /\ "ISIN" \in ColSet(df)
        join_keys_left == IF on_isin THEN <<"ref_date", "ISIN">> ELSE <<"ref_date">>
        join_keys_right == IF on_isin THEN <<dc, "ISIN">> ELSE <<dc>>
        common == ColSet(result) \cap ColSet(df)
        cols_to_drop == common \ {join_keys_right[k] : k \in 1..Len(join_keys_right)}
        right == DropCols(df, cols_to_drop)
    IN  IF JoinRaises(result, right, join_keys_left, join_keys_right)
        THEN [raised |-> TRUE, df |-> result]
        ELSE [raised |-> FALSE,
              df |-> LeftJoin(result, right, join_keys_left, join_keys_right)]

\* join_on_calendar(dfs) from list position n; acc = [raised, df].
RECURSIVE join_on_calendar(_, _, _)
join_on_calendar(dfs, n, acc) ==
    IF acc.raised \/ n > Len(dfs) THEN acc
    ELSE join_on_calendar(dfs, n + 1, join_one(acc.df, dfs[n]))

----------------------------------------------------------------------------
(* Fundamentals fetch: FundamentalDataLoader.get_fundamentals.              *)

RequestIsins == <<"E1", "E2">>

FundFields == {"ff_eps", "ff_sales"}

\* The database of the fundamentals model: the columns each table stores and
\* the (date, ISIN) keys it has rows for.
fund_columns(table) ==
    CASE table = BasicQf -> {"ff_sales"}
      [] table = AdvancedQf -> {"FF_EPS"}
      [] OTHER -> {"FF_EPS", "ff_sales"}

ff_keys(table) ==
    CASE table = BasicQf -> <<[date |-> 1, ISIN |-> "E1"], [date |-> 2, ISIN |-> "E1"]>>
      [] table = AdvancedQf -> <<[date |-> 2, ISIN |-> "E1"], [date |-> 2, ISIN |-> "E2"],
                                 [date |-> 3, ISIN |-> "E2"]>>
      [] OTHER -> <<[date |-> 2, ISIN |-> "E2"]>>

ff_value(table, field, key) ==
    (IF table = BasicQf THEN 100 ELSE IF table = AdvancedQf THEN 200 ELSE 300)
    + (IF Lower(field) = "ff_eps" THEN 10 ELSE 20) * key.date
    + IsinRank(key.ISIN)

\* SELECT symi.ISIN, ff.date, {cols} FROM {table} ... WHERE symi.ISIN IN
\* ({isin_list}) AND ff.date BETWEEN '{start_date}' AND '{end_date}'
read_fundamentals(table, fields_in_table, isins, start, end) ==
    LET hit == SelectSeq(ff_keys(table),
                   LAMBDA k : InSeq(k.ISIN, isins) /\ start <= k.date /\ k.date <= end)
        cols == <<"ISIN", "date">> \o fields_in_table
    IN  Frame(cols,
              [i \in 1..Len(hit) |->
                  [c \in {cols[j] : j \in 1..Len(cols)} |->
                      IF c = "ISIN" THEN Some(hit[i].ISIN)
                      ELSE IF c = "date" THEN Some(hit[i].date)
                      ELSE Some(ff_value(table, c, hit[i]))]])

\* The keys of a dict filled in the order of s: first occurrences, in order.
RECURSIVE Dedupe(_)
Dedupe(s) ==
    IF s = <<>> THEN <<>>
    ELSE LET init == Dedupe(SubSeq(s, 1, Len(s) - 1))
         IN  IF InSeq(s[Len(s)], init) THEN init ELSE Append(init, s[Len(s)])

\* table_to_fields and missing_fields, from resolved.items().
table_order(keys, map) ==
    LET found == SelectSeq(keys, LAMBDA f : map[f] # None)
    IN  Dedupe([i \in 1..Len(found) |-> map[found[i]]])

fields_in(keys, map, table) == SelectSeq(keys, LAMBDA f : map[f] = table)

missing_fields_of(keys, map) == SelectSeq(keys, LAMBDA f : map[f] = None)

\* `for table, fields_in_table in table_to_fields.items()` from position n:
\* pd.read_sql is not guarded, a failing fetch leaves the function.
\* acc = [raised, dfs].
RECURSIVE fetch_tables(_, _, _, _, _, _, _, _)
fetch_tables(order, n, keys, map, failing, start, end, acc) ==
    IF acc.raised \/ n > Len(order) THEN acc
    ELSE IF order[n] \in failing
    THEN [raised |-> TRUE, dfs |-> acc.dfs]
    ELSE LET df == read_fundamentals(order[n], fields_in(keys, map, order[n]),
                       RequestIsins, start, end)
         IN  fetch_tables(order, n + 1, keys, map, failing, start, end,
                 [raised |-> FALSE,
                  dfs |-> IF df.rows = <<>> THEN acc.dfs ELSE Append(acc.dfs, df)])

\* dfs[i] = dfs[i].with_columns(pl.lit(None).alias(mf)) for every mf
RECURSIVE with_null_columns(_, _)
with_null_columns(df, names) ==
    IF names = <<>> THEN df
    ELSE with_null_columns(WithNullColumn(df, Head(names)), Tail(names))

\* The `if missing_fields:` block.
fill_missing(dfs, missing) ==
    IF missing = <<>> THEN dfs
    ELSE IF dfs # <<>>
    THEN [i \in 1..Len(dfs) |-> with_null_columns(dfs[i], missing)]
    ELSE LET names == Dedupe(missing)
         IN  <<Frame(names, <<[c \in {names[j] : j \in 1..Len(names)} |-> Null]>>)>>

\* get_fundamentals after the resolution r: [raised, dataframes, field_table_map].
fundamentals_of(r, failing, start, end) ==
    LET got == fetch_tables(table_order(r.keys, r.resolved), 1, r.keys, r.resolved,
                   failing, start, end, [raised |-> FALSE, dfs |-> <<>>])
    IN  IF got.raised
        THEN [raised |-> TRUE, dataframes |-> <<>>, field_table_map |-> r.resolved]
        ELSE [raised |-> FALSE,
              dataframes |-> fill_missing(got.dfs, missing_fields_of(r.keys, r.resolved)),
              field_table_map |-> r.resolved]

----------------------------------------------------------------------------
(* Fundamentals panel: DataOrchestrator.load_fundamentals.                  *)

HasDuplicates(s) == \E i, j \in 1..Len(s) : i # j /\ s[i] = s[j]

\* c.lower().startswith("date") and c != "ref_date"
IsDateColumn(c) == c \in {"date", "date_right"}

\* The same steps without the window filter and without drop_nulls.
panel_of_unfiltered(joined, fund_fields, start, end) ==
    LET dropped == DropCols(joined, {c \in ColSet(joined) : IsDateColumn(c)})
        \* .with_columns(pl.col("ref_date").alias("date")).drop("ref_date")
        dated == Frame(SelectSeq(dropped.cols, LAMBDA c : c # "ref_date") \o <<"date">>,
                       [i \in 1..Len(dropped.rows) |->
                           [c \in ((DOMAIN dropped.rows[i]) \ {"ref_date"}) \cup {"date"} |->
                               IF c = "date" THEN dropped.rows[i]["ref_date"]
                               ELSE dropped.rows[i][c]]])
        with_isin == dated.rows
        ordered_fields == SelectSeq(fund_fields, LAMBDA f : f \in ColSet(dated))
        final_cols == SelectSeq(<<"date", "ISIN">> \o ordered_fields,
                          LAMBDA c : c \in ColSet(dated))
    IN  IF "ISIN" \notin ColSet(dated) \/ HasDuplicates(final_cols)
        THEN [raised |-> TRUE, df |-> EmptyFrame]
        ELSE [raised |-> FALSE,
              df |-> Frame(final_cols,
                        [i \in 1..Len(with_isin) |->
                            [c \in {final_cols[j] : j \in 1..Len(final_cols)} |->
                                with_isin[i][c]]])]

\* The steps of load_fundamentals after join_on_calendar: [raised, df].
panel_of(joined, fund_fields, start, end) ==
    LET dropped == DropCols(joined, {c \in ColSet(joined) : IsDateColumn(c)})
        \* .with_columns(pl.col("ref_date").alias("date")).drop("ref_date")
        dated == Frame(SelectSeq(dropped.cols, LAMBDA c : c # "ref_date") \o <<"date">>,
                       [i \in 1..Len(dropped.rows) |->
                           [c \in ((DOMAIN dropped.rows[i]) \ {"ref_date"}) \cup {"date"} |->
                               IF c = "date" THEN dropped.rows[i]["ref_date"]
                               ELSE dropped.rows[i][c]]])
        \* .filter(pl.col("date").is_between(start_date, end_date))
        in_window == SelectSeq(dated.rows,
                         LAMBDA r : r["date"] # Null /\ start <= r["date"][1]
                                                     /\ r["date"][1] <= end)
        \* .drop_nulls("ISIN")
        with_isin == SelectSeq(in_window, LAMBDA r : r["ISIN"] # Null)
        ordered_fields == SelectSeq(fund_fields, LAMBDA f : f \in ColSet(dated))
        final_cols == SelectSeq(<<"date", "ISIN">> \o ordered_fields,
                          LAMBDA c : c \in ColSet(dated))
    IN  IF "ISIN" \notin ColSet(dated) \/ HasDuplicates(final_cols)
        THEN [raised |-> TRUE, df |-> EmptyFrame]
        ELSE [raised |-> FALSE,
              df |-> Frame(final_cols,
                        [i \in 1..Len(with_isin) |->
                            [c \in {final_cols[j] : j \in 1..Len(final_cols)} |->
                                with_isin[i][c]]])]

NoFundOut == [raised |-> FALSE, dataframes |-> <<>>, field_table_map |-> <<>>]

InitFund ==
    /\ fundamental_tables \in Catalogs(SchemaTables, MaxTables)
    /\ db_columns = [t \in SchemaTables |->
                        IF InSeq(t, fundamental_tables) THEN fund_columns(t) ELSE {}]
    /\ table_columns_cache = <<>>
    /\ column_queries = <<>>
    /\ req_fields \in SeqsUpTo(FundFields, MaxFields)
    /\ req_frequency = "qf"
    /\ resolved = [fb \in BOOLEAN |-> NotCalled]
    /\ warned = [fb \in BOOLEAN |-> <<>>]
    /\ req_fallback \in BOOLEAN
    /\ start_date \in Dates
    /\ end_date \in start_date..MaxDate
    /\ failing_tables \in SUBSET {fundamental_tables[k] : k \in 1..Len(fundamental_tables)}
    /\ fund_out = NoFundOut
    /\ fund_panel = EmptyFrame
    /\ pc_fund = "start"
    /\ IdleAdj /\ IdleEst /\ IdleMore
    /\ db_log = <<>>

\* load_fundamentals: if not fund_fields: return pl.DataFrame([])
LoadFundamentalsNoFields ==
    /\ pc_fund = "start"
    /\ req_fields = <<>>
    /\ fund_panel' = EmptyFrame
    /\ pc_fund' = "done"
    /\ UNCHANGED <<vars_res, req_fallback, start_date, end_date, failing_tables,
                   fund_out, vars_adj, vars_est, vars_more, db_log>>

\* The tables the fetch loop sends a SELECT to: up to the first failing one.
fetch_queries(order, failing) ==
    LET bad == {k \in 1..Len(order) : order[k] \in failing}
    IN  IF bad = {} THEN order ELSE SubSeq(order, 1, Min(bad))

\* result = self.fund_loader.get_fundamentals(...)
GetFundamentals ==
    /\ pc_fund = "start"
    /\ req_fields # <<>>
    /\ \E r \in {resolve_field_table_mapping(req_fields, req_frequency, req_fallback,
                     fundamental_tables, db_columns,
                     [cache |-> table_columns_cache, queries |-> column_queries])} :
          /\ resolved' = [resolved EXCEPT ![req_fallback] =
                             [called |-> TRUE, map |-> r.resolved]]
          /\ warned' = [warned EXCEPT ![req_fallback] = r.warned]
          /\ table_columns_cache' = r.cache
          /\ column_queries' = r.queries
          /\ db_log' = db_log \o SubSeq(r.queries, Len(column_queries) + 1, Len(r.queries))
                        \o fetch_queries(table_order(r.keys, r.resolved), failing_tables)
          /\ \E out \in {fundamentals_of(r, failing_tables, start_date, end_date)} :
                /\ fund_out' = out
                /\ pc_fund' = IF out.raised THEN "raised" ELSE "fetched"
    /\ UNCHANGED <<fundamental_tables, db_columns, req_fields, req_frequency,
                   req_fallback, start_date, end_date, failing_tables, fund_panel,
                   vars_adj, vars_est, vars_more>>

\* The rest of load_fundamentals: the empty short-circuit, the calendar join,
\* the window filter, drop_nulls and the final select.
AlignFundamentals ==
    /\ pc_fund = "fetched"
    /\ IF fund_out.dataframes = <<>>
       THEN /\ fund_panel' = EmptyFrame
            /\ pc_fund' = "done"
       ELSE \E j \in {join_on_calendar(fund_out.dataframes, 1,
                          [raised |-> FALSE, df |-> CalendarFrame])} :
               IF j.raised
               THEN /\ fund_panel' = EmptyFrame
                    /\ pc_fund' = "raised"
               ELSE \E p \in {panel_of(j.df, req_fields, start_date, end_date)} :
                       /\ fund_panel' = p.df
                       /\ pc_fund' = IF p.raised THEN "raised" ELSE "done"
    /\ db_log' = IF fund_out.dataframes = <<>> THEN db_log
                  ELSE Append(db_log, "ref_v2.ref_calendar_dates")
    /\ UNCHANGED <<vars_res, req_fallback, start_date, end_date, failing_tables,
                   fund_out, vars_adj, vars_est, vars_more>>

NextFund == LoadFundamentalsNoFields \/ GetFundamentals \/ AlignFundamentals

SpecFund == InitFund /\ [][NextFund]_vars

----------------------------------------------------------------------------
(* Properties of the fundamentals pipeline.                                 *)

FundFinished == pc_fund \in {"done", "raised"}

FundFetched == pc_fund \in {"fetched", "done", "raised"} /\ resolved[req_fallback].called

\* The tables the request resolved to, and those of them whose fetch fails.
ResolvedTables ==
    {resolved[req_fallback].map[f] : f \in DOMAIN resolved[req_fallback].map} \ {None}

FailedFetches == ResolvedTables \cap failing_tables

\* The rows table t holds for the request.
RowsOf(t) ==
    read_fundamentals(t, fields_in(Dedupe(req_fields), resolved[req_fallback].map, t),
        RequestIsins, start_date, end_date)

\* Frame df carries every row of frame part, on the columns of part.
Carries(df, part) ==
    \A i \in 1..Len(part.rows) :
        \E j \in 1..Len(df.rows) :
            \A c \in ColSet(part) : c \in ColSet(df) /\ df.rows[j][c] = part.rows[i][c]

\* ["eps"] with fallback=false where eps exists only in a non-priority table.
OnlyNonPriorityRequest ==
    /\ req_fields = <<"ff_eps">>
    /\ req_fallback = FALSE
    /\ CandidateTables("ff_eps") # {}
    /\ PriorityPositions("ff_eps") = {}

\* C6: a request for one field with fallback=false, the field being stored
\* only in a table outside the priority list, resolves the field to None and
\* load_fundamentals returns, without raising, a table that has the field's
\* column with a null in every row.
C6_NullColumnReturned ==
    (FundFinished /\ OnlyNonPriorityRequest) =>
        /\ resolved[FALSE].map = [f \in {"ff_eps"} |-> None]
        /\ pc_fund = "done"
        /\ "ff_eps" \in ColSet(fund_panel)
        /\ \A i \in 1..Len(fund_panel.rows) : fund_panel.rows[i]["ff_eps"] = Null

\* The part of C6 the code does deliver: the resolution map.
C6_ResolutionMap ==
    (FundFinished /\ OnlyNonPriorityRequest) =>
        resolved[FALSE].map = [f \in {"ff_eps"} |-> None]

C6_Reached == FundFinished /\ OnlyNonPriorityRequest

\* C8: when the fetch from one resolved table raises, get_fundamentals still
\* returns to its caller, and its result carries the rows of every other
\* resolved table.
C8_FailedFetchTreatedAsEmpty ==
    (FundFetched /\ FailedFetches # {}) =>
        /\ ~fund_out.raised
        /\ \A t \in ResolvedTables \ failing_tables :
              RowsOf(t).rows # <<>> =>
                  \E i \in 1..Len(fund_out.dataframes) :
                      Carries(fund_out.dataframes[i], RowsOf(t))

C8_Reached ==
    /\ FundFetched /\ FailedFetches # {}
    /\ \E t \in ResolvedTables \ failing_tables : RowsOf(t).rows # <<>>

\* Without a failing fetch the rows of every resolved table are returned and
\* the panel is produced.
FundNoFailureReturnsRows ==
    (FundFetched /\ FailedFetches = {}) =>
        /\ ~fund_out.raised
        /\ \A t \in ResolvedTables :
              RowsOf(t).rows # <<>> =>
                  \E i \in 1..Len(fund_out.dataframes) :
                      Carries(fund_out.dataframes[i], RowsOf(t))

FundPanelReached ==
    /\ pc_fund = "done"
    /\ Len(fund_panel.rows) >= 2
    /\ Len(fund_panel.cols) = 4

----------------------------------------------------------------------------
(* Estimates: EstimatesLoader.get_estimates.                                *)

EstItems == {"EPS", "BPS", "DPS"}

ItemRank(item) == IF item = "EPS" THEN 1 ELSE IF item = "BPS" THEN 2 ELSE 3

\* The two candidate tables of one table type and frequency.
tables_to_try == <<"fe_v4.fe_advanced_act_qf", "fe_v4.fe_basic_act_qf">>

\* '{start}' and '{end}' of the request.
EstWindow == [start |-> 1, end |-> 2]

EstColumns == <<"fsym_id", "fe_item", "fe_fp_end", "currency", "value">>

EstRow(period, currency, item) ==
    [fsym_id |-> "F1", fe_item |-> item, fe_fp_end |-> period, currency |-> currency,
     value |-> Some(10 * period + ItemRank(item))]

\* The rows an estimates table can hold in the model; the last one lies
\* outside the requested window.
EstUniverse ==
    <<EstRow(1, "USD", "EPS"), EstRow(2, "USD", "EPS"), EstRow(2, "EUR", "EPS"),
      EstRow(1, "USD", "BPS"), EstRow(2, "USD", "BPS"), EstRow(1, "USD", "DPS"),
      EstRow(3, "USD", "EPS")>>

RECURSIVE SortedSeq(_)
SortedSeq(S) == IF S = {} THEN <<>> ELSE <<Min(S)>> \o SortedSeq(S \ {Min(S)})

RowsAt(I) == LET idx == SortedSeq(I) IN [k \in 1..Len(idx) |-> EstUniverse[idx[k]]]

\* What a table answers: the database call raises, or the table has rows.
TableContents ==
    {[raises |-> TRUE, rows |-> <<>>]}
    \cup {[raises |-> FALSE, rows |-> RowsAt(I)] :
             I \in {J \in SUBSET (1..Len(EstUniverse)) : Cardinality(J) <= MaxEstRows}}

\* SharedUtils.get_isin_map: the (isin, fsym_regional_id) rows of the request.
IsinMaps ==
    {<<>>, <<[isin |-> "E1", fsym |-> "F1"]>>,
     <<[isin |-> "E1", fsym |-> "F1"], [isin |-> "E2", fsym |-> "F1"]>>}

fsym_ids_of(map) == {map[i].fsym : i \in 1..Len(map)}

\* SELECT * FROM {table} WHERE fe_item IN (...) AND fe_fp_end BETWEEN ... AND
\* fsym_id IN (...)
read_database(content, missing_items, fsym_ids) ==
    SelectSeq(content.rows,
        LAMBDA r : /\ r.fe_item \in missing_items
                   /\ EstWindow.start <= r.fe_fp_end /\ r.fe_fp_end <= EstWindow.end
                   /\ r.fsym_id \in fsym_ids)

\* The try block with the raised error leaving the function.
try_table_propagating(content, missing_items, fsym_ids, acc) ==
    IF content.raises THEN [acc EXCEPT !.raised = TRUE]
    ELSE LET df == read_database(content, missing_items, fsym_ids)
         IN  IF df = <<>> THEN acc
             ELSE [raised |-> FALSE,
                   found_items |-> acc.found_items \cup {df[i].fe_item : i \in 1..Len(df)},
                   collected |-> Append(acc.collected, df)]

\* The try/except of one loop iteration; acc = [raised, found_items, collected].
try_table(content, missing_items, fsym_ids, acc) ==
    IF content.raises THEN acc
    ELSE LET df == read_database(content, missing_items, fsym_ids)
         IN  IF df = <<>> THEN acc
             ELSE [raised |-> FALSE,
                   found_items |-> acc.found_items \cup {df[i].fe_item : i \in 1..Len(df)},
                   collected |-> Append(acc.collected, df)]

\* df_all.select(["fsym_id", "fe_fp_end", "currency"]).unique(), as a set:
\* unique() does not fix the order of its rows.
base_keys(df_all) ==
    {[fsym_id |-> df_all[i].fsym_id, fe_fp_end |-> df_all[i].fe_fp_end,
      currency |-> df_all[i].currency] : i \in 1..Len(df_all)}

\* The orders in which the elements of a set can be listed.
Orders(S) ==
    {s \in [1..Cardinality(S) -> S] : \A i, j \in 1..Cardinality(S) : s[i] = s[j] => i = j}

\* Only the first row of base gets a null row.
null_rows_first_only(base, item) ==
    [i \in 1..(IF base = <<>> THEN 0 ELSE 1) |->
        [fsym_id |-> base[i].fsym_id, fe_item |-> item, fe_fp_end |-> base[i].fe_fp_end,
         currency |-> base[i].currency, value |-> Null]]

\* base.with_columns([pl.lit(item).alias("fe_item"), pl.lit(None).alias("value")])
null_rows(base, item) ==
    [i \in 1..Len(base) |->
        [fsym_id |-> base[i].fsym_id, fe_item |-> item, fe_fp_end |-> base[i].fe_fp_end,
         currency |-> base[i].currency, value |-> Null]]

\* for item in missing_items: df_all = pl.concat([df_all, df_null], how="diagonal")
RECURSIVE fill_items(_, _, _)
fill_items(df_all, base, items) ==
    IF items = <<>> THEN df_all
    ELSE fill_items(df_all \o null_rows(base, Head(items)), base, Tail(items))

\* reverse_map = {v: k for k, v in isin_map.items()}; reverse_map.get(x, None)
reverse_get(map, fsym) ==
    LET hits == {i \in 1..Len(map) : map[i].fsym = fsym}
    IN  IF hits = {} THEN Null
        ELSE Some(map[CHOOSE i \in hits : \A j \in hits : j <= i].isin)

\* Lines 66-77: the ISIN column and the column order of the result.
with_isin_first(df_all, map) ==
    LET first_cols == <<"fe_fp_end", "ISIN", "fe_item">>
        columns == EstColumns \o <<"ISIN">>
        remaining_cols == SelectSeq(columns, LAMBDA c : ~InSeq(c, first_cols))
    IN  Frame(first_cols \o remaining_cols,
              [i \in 1..Len(df_all) |->
                  [c \in {columns[k] : k \in 1..Len(columns)} |->
                      IF c = "ISIN" THEN reverse_get(map, df_all[i].fsym_id)
                      ELSE df_all[i][c]]])

InitEst ==
    /\ fe_items \in SUBSET EstItems
    /\ isin_map \in IsinMaps
    /\ fe_db \in [{tables_to_try[k] : k \in 1..Len(tables_to_try)} -> TableContents]
    /\ tables_left = <<>>
    /\ collected = <<>>
    /\ found_items = {}
    /\ fe_queries = <<>>
    /\ fe_result = EmptyFrame
    /\ pc_est = "start"
    /\ IdleAdj /\ IdleRes /\ IdleFund /\ IdleMore
    /\ db_log = <<>>

\* Lines 13-27: no mapped entity ends the call with an empty frame.
GetEstimatesStart ==
    /\ pc_est = "start"
    /\ IF fsym_ids_of(isin_map) = {}
       THEN /\ pc_est' = "done"
            /\ tables_left' = <<>>
       ELSE /\ pc_est' = "loop"
            /\ tables_left' = tables_to_try
    /\ db_log' = Append(db_log, "sym_v1.sym_isin")
    /\ UNCHANGED <<fe_items, isin_map, fe_db, collected, found_items, fe_queries,
                   fe_result, vars_adj, vars_res, vars_fund, vars_more>>

\* The iteration asking the table for every requested item, found or not.
TryTableAllItems ==
    /\ pc_est = "loop"
    /\ tables_left # <<>>
    /\ fe_items \ found_items # {}
    /\ \E r \in {try_table(fe_db[Head(tables_left)], fe_items,
                     fsym_ids_of(isin_map),
                     [raised |-> FALSE, found_items |-> found_items,
                      collected |-> collected])} :
          /\ found_items' = r.found_items
          /\ collected' = r.collected
          /\ pc_est' = IF r.raised THEN "raised" ELSE "loop"
    /\ fe_queries' = Append(fe_queries, [table |-> Head(tables_left), items |-> fe_items])
    /\ tables_left' = Tail(tables_left)
    /\ db_log' = Append(db_log, Head(tables_left))
    /\ UNCHANGED <<fe_items, isin_map, fe_db, fe_result, vars_adj, vars_res, vars_fund, vars_more>>

\* One iteration of `for table in tables_to_try` that runs its query.
TryTable ==
    /\ pc_est = "loop"
    /\ tables_left # <<>>
    /\ fe_items \ found_items # {}
    /\ \E r \in {try_table(fe_db[Head(tables_left)], fe_items \ found_items,
                     fsym_ids_of(isin_map),
                     [raised |-> FALSE, found_items |-> found_items,
                      collected |-> collected])} :
          /\ found_items' = r.found_items
          /\ collected' = r.collected
          /\ pc_est' = IF r.raised THEN "raised" ELSE "loop"
    /\ fe_queries' = Append(fe_queries,
                        [table |-> Head(tables_left), items |-> fe_items \ found_items])
    /\ tables_left' = Tail(tables_left)
    /\ db_log' = Append(db_log, Head(tables_left))
    /\ UNCHANGED <<fe_items, isin_map, fe_db, fe_result, vars_adj, vars_res, vars_fund, vars_more>>

\* The loop ends (break, or no table left) and lines 51-77 build the result.
\* list(set(...)) and unique() leave the order of their elements open.
FinishEstimates ==
    /\ pc_est = "loop"
    /\ tables_left = <<>> \/ fe_items \ found_items = {}
    /\ IF collected = <<>>
       THEN fe_result' = EmptyFrame
       ELSE \E missing_items \in Orders(fe_items \ found_items) :
            \E base \in Orders(base_keys(Flatten(collected))) :
               fe_result' = with_isin_first(
                                fill_items(Flatten(collected), base, missing_items),
                                isin_map)
    /\ pc_est' = "done"
    /\ UNCHANGED <<fe_items, isin_map, fe_db, tables_left, collected, found_items,
                   fe_queries, vars_adj, vars_res, vars_fund, vars_more, db_log>>

NextEst == GetEstimatesStart \/ TryTable \/ FinishEstimates

SpecEst == InitEst /\ [][NextEst]_vars

----------------------------------------------------------------------------
(* Properties of the estimates loader.                                      *)

\* The loop is about to query a table whose database call raises.
RaisingFetchNext ==
    /\ pc_est = "loop"
    /\ tables_left # <<>>
    /\ fe_items \ found_items # {}
    /\ fe_db[Head(tables_left)].raises

\* What the same iteration does with a table that has no rows.
AfterEmptyFetch ==
    try_table([raises |-> FALSE, rows |-> <<>>], fe_items \ found_items,
        fsym_ids_of(isin_map),
        [raised |-> FALSE, found_items |-> found_items, collected |-> collected])

QueriedTables == {fe_queries[i].table : i \in 1..Len(fe_queries)}

\* C9: an iteration of get_estimates whose fetch raises leaves found_items and
\* collected as an empty result would, queries the table once and moves on to
\* the next candidate table, and the call goes on without an exception.
C9_RaisingFetchIsEmptyFetch ==
    [][RaisingFetchNext =>
          /\ found_items' = AfterEmptyFetch.found_items
          /\ collected' = AfterEmptyFetch.collected
          /\ found_items' = found_items
          /\ collected' = collected
          /\ tables_left' = Tail(tables_left)
          /\ Len(fe_queries') = Len(fe_queries) + 1
          /\ Head(tables_left) \notin QueriedTables
          /\ pc_est' = "loop"]_vars

\* The advanced table raised, the basic table was still queried and its rows
\* are in the result.
C9_Witness ==
    /\ pc_est = "done"
    /\ fe_db[tables_to_try[1]].raises
    /\ Len(fe_queries) = 2
    /\ fe_queries[2].table = tables_to_try[2]
    /\ Len(collected) = 1
    /\ fe_result.rows # <<>>

\* No call of get_estimates ends in an exception of a fetch.
EstNeverRaises == pc_est # "raised"

FetchedRows == Flatten(collected)

FetchedKeys ==
    {[fsym_id |-> FetchedRows[i].fsym_id, fe_fp_end |-> FetchedRows[i].fe_fp_end] :
        i \in 1..Len(FetchedRows)}

ResultRowsFor(item) ==
    {i \in 1..Len(fe_result.rows) : fe_result.rows[i]["fe_item"] = item}

\* C10: once get_estimates has returned with rows fetched, an item found in no
\* candidate table has, for every (entity, period) key of the fetched rows, a
\* row with a null value in the result; the item's rows are these null rows
\* only, one for each (entity, period, currency) of the fetched rows.
C10_NullRowsForMissingItem ==
    (pc_est = "done" /\ collected # <<>>) =>
        \A item \in fe_items \ found_items :
            /\ \A key \in FetchedKeys :
                  \E i \in ResultRowsFor(item) :
                      /\ fe_result.rows[i]["fsym_id"] = key.fsym_id
                      /\ fe_result.rows[i]["fe_fp_end"] = key.fe_fp_end
                      /\ fe_result.rows[i]["value"] = Null
            /\ \A i \in ResultRowsFor(item) : fe_result.rows[i]["value"] = Null
            /\ \A b \in base_keys(FetchedRows) :
                  Cardinality({i \in ResultRowsFor(item) :
                      /\ fe_result.rows[i]["fsym_id"] = b.fsym_id
                      /\ fe_result.rows[i]["fe_fp_end"] = b.fe_fp_end
                      /\ fe_result.rows[i]["currency"] = b.currency}) = 1
            /\ Cardinality(ResultRowsFor(item)) = Cardinality(base_keys(FetchedRows))

\* BPS is found in no table while EPS returned rows for two periods.
C10_Witness ==
    /\ pc_est = "done"
    /\ fe_items = {"EPS", "BPS"}
    /\ found_items = {"EPS"}
    /\ Cardinality(FetchedKeys) = 2
    /\ Cardinality(ResultRowsFor("BPS")) = 2

\* One key of the fetched rows under two currencies gives two null rows for
\* the same (entity, period) key.
EstTwoCurrenciesReached ==
    /\ pc_est = "done"
    /\ fe_items \ found_items # {}
    /\ Cardinality(FetchedKeys) = 1
    /\ Cardinality(base_keys(FetchedRows)) = 2


----------------------------------------------------------------------------
(* Shape of the estimates result.                                           *)

ResultKeys ==
    {[fsym_id |-> fe_result.rows[i]["fsym_id"], fe_fp_end |-> fe_result.rows[i]["fe_fp_end"]] :
        i \in 1..Len(fe_result.rows)}

\* C11: in a non-empty result of get_estimates every requested item has a
\* row, real or synthetic, for every (entity, period) key of the result.
C11_EveryItemForEveryKey ==
    (pc_est = "done" /\ fe_result.rows # <<>>) =>
        \A key \in ResultKeys :
            \A item \in fe_items :
                \E i \in ResultRowsFor(item) :
                    /\ fe_result.rows[i]["fsym_id"] = key.fsym_id
                    /\ fe_result.rows[i]["fe_fp_end"] = key.fe_fp_end

\* The part that holds: an item found in no table is filled for every key.
C11_UnfoundItemsForEveryKey ==
    (pc_est = "done" /\ fe_result.rows # <<>>) =>
        \A key \in ResultKeys :
            \A item \in fe_items \ found_items :
                \E i \in ResultRowsFor(item) :
                    /\ fe_result.rows[i]["fsym_id"] = key.fsym_id
                    /\ fe_result.rows[i]["fe_fp_end"] = key.fe_fp_end


----------------------------------------------------------------------------
(* Orchestrator: DataOrchestrator.load_estimates.                           *)

EstTableTypes == {"act", "conh"}

SeqToSet(s) == {s[i] : i \in 1..Len(s)}

\* def get_estimates(self, table_type, fe_items, isins, start, end, frequency="qf")
get_estimates_params == <<"table_type", "fe_items", "isins", "start", "end", "frequency">>

get_estimates_defaults == {"frequency"}

\* The keywords load_estimates passes to get_estimates.
load_estimates_keywords ==
    {"table_type", "isins", "fe_items", "start_date", "end_date", "frequency"}

\* Python binds a call made of keywords only when every keyword names a
\* parameter and every parameter without a default is given; it raises
\* TypeError otherwise.
call_binds(keywords, params, defaults) ==
    /\ keywords \subseteq SeqToSet(params)
    /\ SeqToSet(params) \ defaults \subseteq keywords

\* f"fe_v4.fe_advanced_{table_type}_{frequency}", f"fe_v4.fe_basic_{table_type}_{frequency}"
tables_to_try_for(table_type) ==
    IF table_type = "act" THEN tables_to_try
    ELSE <<"fe_v4.fe_advanced_conh_qf", "fe_v4.fe_basic_conh_qf">>

AllEstTables == UNION {SeqToSet(tables_to_try_for(t)) : t \in EstTableTypes}

\* The loop of get_estimates over its candidate tables; acc as in try_table.
RECURSIVE try_tables(_, _, _, _, _)
try_tables(tables, items, fsym_ids, db, acc) ==
    IF tables = <<>> \/ items \ acc.found_items = {} THEN acc
    ELSE try_tables(Tail(tables), items, fsym_ids, db,
             try_table(db[Head(tables)], items \ acc.found_items, fsym_ids, acc))

\* The frames one call of get_estimates can return (the orders of
\* list(set(...)) and unique() are open).
get_estimates_results(table_type, items, map, db) ==
    IF fsym_ids_of(map) = {} THEN {EmptyFrame}
    ELSE LET acc == try_tables(tables_to_try_for(table_type), items, fsym_ids_of(map), db,
                        [raised |-> FALSE, found_items |-> {}, collected |-> <<>>])
         IN  IF acc.collected = <<>> THEN {EmptyFrame}
             ELSE {with_isin_first(fill_items(Flatten(acc.collected), base, missing), map) :
                      base \in Orders(base_keys(Flatten(acc.collected))),
                      missing \in Orders(items \ acc.found_items)}

InitLoadEstimates ==
    /\ est_tables \in SeqsUpTo(EstTableTypes, MaxTypes)
    /\ est_items \in SeqsUpTo(EstItems, MaxItems)
    /\ estimates_result = <<>>
    /\ pc_orch = "start"
    /\ isin_map = <<[isin |-> "E1", fsym |-> "F1"]>>
    /\ fe_db = [t \in AllEstTables |->
                   [raises |-> FALSE,
                    rows |-> IF t = tables_to_try[1] THEN RowsAt({1, 2}) ELSE RowsAt({4})]]
    /\ fe_items = {}
    /\ tables_left = <<>>
    /\ collected = <<>>
    /\ found_items = {}
    /\ fe_queries = <<>>
    /\ fe_result = <<>>
    /\ pc_est = "idle"
    /\ db_log = <<>>
    /\ IdleAdj /\ IdleRes /\ IdleFund /\ IdleJoin /\ IdleGp /\ IdleAc

\* load_estimates: the short-circuit, then one get_estimates call per table
\* type; the first call that does not bind ends the function with TypeError.
LoadEstimates ==
    /\ pc_orch = "start"
    /\ IF est_tables = <<>> \/ est_items = <<>>
       THEN /\ estimates_result' = <<>>
            /\ pc_orch' = "done"
            /\ db_log' = db_log
       ELSE IF ~call_binds(load_estimates_keywords, get_estimates_params,
                    get_estimates_defaults)
       THEN /\ estimates_result' = estimates_result
            /\ pc_orch' = "raised"
            /\ db_log' = db_log
       ELSE /\ estimates_result' \in
                  {f \in [SeqToSet(est_tables) ->
                             UNION {get_estimates_results(t, SeqToSet(est_items), isin_map, fe_db) :
                                       t \in SeqToSet(est_tables)}] :
                      \A t \in SeqToSet(est_tables) :
                          f[t] \in get_estimates_results(t, SeqToSet(est_items), isin_map, fe_db)}
            /\ pc_orch' = "done"
            /\ db_log' = db_log \o [i \in 1..Len(est_tables) |-> "sym_v1.sym_isin"]
    /\ UNCHANGED <<est_tables, est_items, vars_adj, vars_res, vars_fund, vars_est, vars_join,
                   vars_gp, vars_ac>>


\* C12: load_estimates called with at least one table type and one item
\* returns, without raising, a mapping with one frame per requested table
\* type, the frame get_estimates gives for that type.
C12_OneTablePerType ==
    (pc_orch \in {"done", "raised"} /\ est_tables # <<>> /\ est_items # <<>>) =>
        /\ pc_orch = "done"
        /\ DOMAIN estimates_result = SeqToSet(est_tables)
        /\ \A t \in SeqToSet(est_tables) :
              estimates_result[t] \in
                  get_estimates_results(t, SeqToSet(est_items), isin_map, fe_db)

\* The call of get_estimates in load_estimates does not bind.
C12_CallDoesNotBind ==
    ~call_binds(load_estimates_keywords, get_estimates_params, get_estimates_defaults)


----------------------------------------------------------------------------
(* join_on_calendar on arbitrary series.                                    *)

\* The (date, ISIN) keys a series can have rows for.
SeriesKeys ==
    <<[date |-> 1, ISIN |-> "E1"], [date |-> 2, ISIN |-> "E1"], [date |-> 2, ISIN |-> "E2"]>>

\* The column layouts of the series: with and without an entity column, with
\* date or price_date as the date column, with colliding value columns.
SeriesLayouts ==
    {<<"ISIN", "date", "ff_sales">>, <<"ISIN", "date", "ff_sales", "ff_eps">>,
     <<"ISIN", "price_date", "p_price">>, <<"date", "ff_sales">>}

\* Values differ from layout to layout, so the origin of a value is visible.
SeriesValue(cols, c, key) ==
    100 * Len(cols) + (IF "price_date" \in SeqToSet(cols) THEN 1000 ELSE 0)
    + (IF "ISIN" \in SeqToSet(cols) THEN 0 ELSE 2000)
    + 10 * key.date + IsinRank(key.ISIN) + (IF c = "ff_eps" THEN 50 ELSE 0)

SeriesFrame(cols, I) ==
    LET idx == SortedSeq(I)
    IN  Frame(cols,
              [k \in 1..Len(idx) |->
                  [c \in SeqToSet(cols) |->
                      IF c = "ISIN" THEN Some(SeriesKeys[idx[k]].ISIN)
                      ELSE IF c \in {"date", "price_date"} THEN Some(SeriesKeys[idx[k]].date)
                      ELSE Some(SeriesValue(cols, c, SeriesKeys[idx[k]]))]])

SeriesFrames ==
    {SeriesFrame(cols, I) :
        cols \in SeriesLayouts,
        I \in {J \in SUBSET (1..Len(SeriesKeys)) : Cardinality(J) <= MaxSeriesRows}}

NoJoinResult == [raised |-> FALSE, df |-> EmptyFrame]

InitJoin ==
    /\ join_dfs \in SeqsUpTo(SeriesFrames, MaxSeries)
    /\ join_result = NoJoinResult
    /\ pc_join = "start"
    /\ db_log = <<>>
    /\ IdleAdj /\ IdleRes /\ IdleFund /\ IdleEst /\ IdleOrch /\ IdleGp /\ IdleAc

\* join_on_calendar(dfs): reads the calendar, then joins the series in turn.
JoinOnCalendar ==
    /\ pc_join = "start"
    /\ \E j \in {join_on_calendar(join_dfs, 1, [raised |-> FALSE, df |-> CalendarFrame])} :
          /\ join_result' = j
          /\ pc_join' = IF j.raised THEN "raised" ELSE "done"
    /\ db_log' = Append(db_log, "ref_v2.ref_calendar_dates")
    /\ UNCHANGED <<join_dfs, vars_adj, vars_res, vars_fund, vars_est, vars_orch,
                   vars_gp, vars_ac>>

NextJoin == JoinOnCalendar

SpecJoin == InitJoin /\ [][NextJoin]_vars

\* The date column of a series.
DateColumnOf(df) == IF "price_date" \in ColSet(df) THEN "price_date" ELSE "date"

\* Some input series has a row for calendar date d.
SeriesHasDate(d) ==
    \E n \in 1..Len(join_dfs) :
        \E i \in 1..Len(join_dfs[n].rows) :
            join_dfs[n].rows[i][DateColumnOf(join_dfs[n])] = Some(d)

JoinedRowsAt(d) ==
    {i \in 1..Len(join_result.df.rows) : join_result.df.rows[i]["ref_date"] = Some(d)}

ValueColumns == ColSet(join_result.df) \ {"ref_date", "ISIN", "date", "price_date"}

FirstSupplier(c) == Min({n \in 1..Len(join_dfs) : c \in ColSet(join_dfs[n])})

\* C14: after join_on_calendar, a value column that several series carry is
\* in the result once, with the values of the first series of the list that
\* has it; the join keys of every incoming series were kept, so that every
\* join was carried out.
C14_FirstSeenWins ==
    (pc_join \in {"done", "raised"}) =>
        /\ pc_join = "done"
        /\ ~HasDuplicates(join_result.df.cols)
        /\ \A n \in 1..Len(join_dfs) :
              ColSet(join_dfs[n]) \ {"date", "price_date"} \subseteq ColSet(join_result.df)
        /\ \A c \in ValueColumns :
              \A i \in 1..Len(join_result.df.rows) :
                  join_result.df.rows[i][c] # Null =>
                      \E k \in 1..Len(join_dfs[FirstSupplier(c)].rows) :
                          LET r == join_dfs[FirstSupplier(c)].rows[k]
                          IN  /\ r[c] = join_result.df.rows[i][c]
                              /\ r[DateColumnOf(join_dfs[FirstSupplier(c)])]
                                     = join_result.df.rows[i]["ref_date"]

\* The second series brings ff_sales again, with other values, and ff_eps:
\* ff_sales of the result is the first series', ff_eps was joined on the keys.
C14_Witness ==
    /\ pc_join = "done"
    /\ Len(join_dfs) = 2
    /\ join_dfs[1].cols = <<"ISIN", "date", "ff_sales">>
    /\ join_dfs[2].cols = <<"ISIN", "date", "ff_sales", "ff_eps">>
    /\ \E i \in 1..Len(join_result.df.rows) :
          /\ join_result.df.rows[i]["ff_sales"] # Null
          /\ join_result.df.rows[i]["ff_eps"] # Null
          /\ \E k \in 1..Len(join_dfs[2].rows) :
                /\ join_dfs[2].rows[k]["date"] = join_result.df.rows[i]["ref_date"]
                /\ join_dfs[2].rows[k]["ISIN"] = join_result.df.rows[i]["ISIN"]
                /\ join_dfs[2].rows[k]["ff_sales"] # join_result.df.rows[i]["ff_sales"]


----------------------------------------------------------------------------
(* The panel returned by load_fundamentals.                                 *)

\* C15: every row of the table load_fundamentals returns has a date inside
\* the requested window, bounds included, and a non-null ISIN.
C15_WindowAndEntity ==
    (pc_fund = "done") =>
        \A i \in 1..Len(fund_panel.rows) :
            /\ fund_panel.rows[i]["date"] # Null
            /\ start_date <= fund_panel.rows[i]["date"][1]
            /\ fund_panel.rows[i]["date"][1] <= end_date
            /\ fund_panel.rows[i]["ISIN"] # Null

\* A panel with rows for a window of one day, narrower than the calendar and
\* than the dates the fetched table has.
C15_Witness ==
    /\ pc_fund = "done"
    /\ start_date = 2 /\ end_date = 2
    /\ Len(fund_panel.rows) >= 2
    /\ \A i \in 1..Len(fund_panel.rows) : fund_panel.rows[i]["date"] = Some(2)


----------------------------------------------------------------------------
(* Price loader: PriceDataLoader.get_prices.                                *)
(* Numeric cells are exact fractions as in the adjuster; NullFactor is a    *)
(* null cell.                                                               *)

ADJUSTABLE_COLUMNS ==
    {"price", "price_open", "price_high", "price_low", "volume", "turnover", "vwap"}

\* The identifiers a request can name; E9 has no row in sym_v1.sym_isin.
RequestableIsins == {"E1", "E2", "E9"}

\* NON_ADJUSTABLE_COLUMNS, the names the tables of the model can hold.
NON_ADJUSTABLE_COLUMNS == {"fsym_id", "price_date", "currency", "trade_count"}

\* The price fields a request can name; bogus is no column of the table, shares
\* is a column that neither ADJUSTABLE_COLUMNS nor NON_ADJUSTABLE_COLUMNS lists.
RequestableFields == {"price", "currency", "shares", "bogus"}

\* sym_v1.sym_isin joined to sym_v1.sym_coverage.
IsinCoverage == <<[isin |-> "E1", fsym_id |-> "F1-R"], [isin |-> "E2", fsym_id |-> "F2-R"]>>

\* INFORMATION_SCHEMA.COLUMNS of fgp_v1.fgp_global_prices.
PriceTableColumns == <<"fsym_id", "price_date", "currency", "price", "shares">>

\* fgp_v1.fgp_global_prices and fgp_v1.fgp_ca_adj_factors.
PriceTable ==
    <<[fsym_id |-> "F2-R", price_date |-> 2, currency |-> "EUR", price |-> <<20, 1>>,
       shares |-> <<7, 1>>],
      [fsym_id |-> "F1-R", price_date |-> 1, currency |-> "USD", price |-> <<10, 1>>,
       shares |-> <<5, 1>>],
      [fsym_id |-> "F1-R", price_date |-> 2, currency |-> "USD", price |-> <<12, 1>>,
       shares |-> <<5, 1>>],
      [fsym_id |-> "F1-R", price_date |-> 3, currency |-> "USD", price |-> NullFactor,
       shares |-> <<6, 1>>]>>

AdjFactorTable ==
    <<[fsym_id |-> "F1-R", effective_date |-> 2, factor |-> <<1, 2>>],
      [fsym_id |-> "F1-R", effective_date |-> 3, factor |-> NullFactor],
      [fsym_id |-> "F2-R", effective_date |-> 3, factor |-> <<2, 1>>],
      [fsym_id |-> "F2-R", effective_date |-> 1, factor |-> <<3, 1>>]>>

\* fsym_id LIKE '%-R'
IsRegional(fsym) == fsym \in {"F1-R", "F2-R"}

\* The mapping query without its WHERE clause.
get_isin_map_unfiltered(isins) == IsinCoverage

\* SharedUtils.get_isin_map(isins, conn)
get_isin_map(isins) == SelectSeq(IsinCoverage, LAMBDA r : InSeq(r.isin, isins))

\* _resolve_price_fields
resolve_price_fields(fields, available_columns) ==
    SelectSeq(fields, LAMBDA f : InSeq(f, available_columns))

unresolved_price_fields(fields, available_columns) ==
    SelectSeq(fields, LAMBDA f : ~InSeq(f, available_columns))

\* _get_prices_raw: a frame without columns when there is no entity.
get_prices_raw(fsym_ids, fields, start, end) ==
    IF fsym_ids = {} THEN [cols |-> <<>>, rows |-> <<>>, queried |-> FALSE]
    ELSE [cols |-> <<"fsym_id", "price_date">> \o fields,
          rows |-> SelectSeq(PriceTable,
                       LAMBDA r : /\ r.fsym_id \in fsym_ids
                                  /\ start <= r.price_date /\ r.price_date <= end
                                  /\ IsRegional(r.fsym_id)),
          queried |-> TRUE]

\* _get_adjustment_factors with the restriction turned round: the events up
\* to start_date.
get_adjustment_factors_until_start(fsym_ids, start) ==
    IF fsym_ids = {} THEN [cols |-> <<>>, rows |-> <<>>, queried |-> FALSE]
    ELSE [cols |-> <<"fsym_id", "effective_date", "div_spl_spin_adj_factor">>,
          rows |-> SelectSeq(AdjFactorTable,
                       LAMBDA r : r.fsym_id \in fsym_ids /\ r.effective_date <= start),
          queried |-> TRUE]

\* _get_adjustment_factors
get_adjustment_factors(fsym_ids, start) ==
    IF fsym_ids = {} THEN [cols |-> <<>>, rows |-> <<>>, queried |-> FALSE]
    ELSE [cols |-> <<"fsym_id", "effective_date", "div_spl_spin_adj_factor">>,
          rows |-> SelectSeq(AdjFactorTable,
                       LAMBDA r : r.fsym_id \in fsym_ids /\ start <= r.effective_date),
          queried |-> TRUE]

\* pl_isin_map ... .unique(subset=["fsym_id"], keep="first"), as a lookup.
isin_of(df_isin_map, fsym) ==
    df_isin_map[Min({i \in 1..Len(df_isin_map) : df_isin_map[i].fsym_id = fsym})].isin

\* _prepare_pl_dfs: the casts need the date columns, the inner joins attach
\* ISIN, both frames are sorted by entity and date.
prepare_pl_dfs(df_prices, df_adj, df_isin_map) ==
    IF \/ ~InSeq("price_date", df_prices.cols)
       \/ ~InSeq("effective_date", df_adj.cols)
       \/ HasDuplicates(df_prices.cols)
    THEN [raised |-> TRUE, pl_prices |-> <<>>, pl_adj |-> <<>>]
    ELSE LET mapped(r) == \E i \in 1..Len(df_isin_map) : df_isin_map[i].fsym_id = r.fsym_id
             p == SelectSeq(df_prices.rows, mapped)
             a == SelectSeq(df_adj.rows, mapped)
             p_isin == [i \in 1..Len(p) |->
                           [ISIN |-> isin_of(df_isin_map, p[i].fsym_id),
                            fsym_id |-> p[i].fsym_id, price_date |-> p[i].price_date,
                            currency |-> p[i].currency, price |-> p[i].price,
                            shares |-> p[i].shares]]
             a_isin == [i \in 1..Len(a) |->
                           [ISIN |-> isin_of(df_isin_map, a[i].fsym_id),
                            effective_date |-> a[i].effective_date,
                            factor |-> a[i].factor]]
         IN  [raised |-> FALSE,
              pl_prices |-> SortByKey(p_isin, [i \in 1..Len(p_isin) |-> PriceKey(p_isin[i])]),
              pl_adj |-> SortByKey(a_isin, [i \in 1..Len(a_isin) |-> AdjKey(a_isin[i])])]

\* _split_fields with the adjustable fields taken by exclusion: every field
\* that NON_ADJUSTABLE_COLUMNS does not list.
split_fields_by_exclusion(fields) ==
    [adjustable_fields |-> SelectSeq(fields, LAMBDA c : c \notin NON_ADJUSTABLE_COLUMNS),
     non_adjustable_fields |-> SelectSeq(fields, LAMBDA c : c \in NON_ADJUSTABLE_COLUMNS)]

\* _split_fields
split_fields(fields) ==
    [adjustable_fields |-> SelectSeq(fields, LAMBDA c : c \in ADJUSTABLE_COLUMNS),
     non_adjustable_fields |-> SelectSeq(fields, LAMBDA c : c \notin ADJUSTABLE_COLUMNS)]


\* a * b on cells: null if either is null.
MulCell(a, b) == IF a = NullFactor \/ b = NullFactor THEN NullFactor ELSE MulFactor(a, b)

\* f"{col}_adj"
AdjName(col) ==
    CASE col = "price" -> "price_adj"
      [] col = "price_open" -> "price_open_adj"
      [] col = "price_high" -> "price_high_adj"
      [] col = "price_low" -> "price_low_adj"
      [] col = "volume" -> "volume_adj"
      [] col = "turnover" -> "turnover_adj"
      [] col = "vwap" -> "vwap_adj"
      [] col = "shares" -> "shares_adj"
      [] OTHER -> "other_adj"

\* adjust_columns with each product multiplied by its column once more.
adjust_columns_squared(df, value_cols, factor_col) ==
    LET names == [k \in 1..Len(value_cols) |-> AdjName(value_cols[k])]
        source(n) == value_cols[Min({k \in 1..Len(names) : names[k] = n})]
    IN  IF \/ HasDuplicates(names)
           \/ \E k \in 1..Len(value_cols) : value_cols[k] \notin ColSet(df)
           \/ (value_cols # <<>> /\ factor_col \notin ColSet(df))
        THEN [raised |-> TRUE, df |-> EmptyFrame]
        ELSE [raised |-> FALSE,
              df |-> Frame(df.cols \o SelectSeq(names, LAMBDA n : n \notin ColSet(df)),
                        [i \in 1..Len(df.rows) |->
                            [c \in ColSet(df) \cup SeqToSet(names) |->
                                IF c \in SeqToSet(names)
                                THEN MulCell(MulCell(df.rows[i][source(c)],
                                                 df.rows[i][factor_col]),
                                         df.rows[i][source(c)])
                                ELSE df.rows[i][c]]])]

\* adjust_columns: df.with_columns([(pl.col(col) * pl.col(factor_col))
\* .alias(f"{col}_adj") for col in value_cols]); [raised, df].
adjust_columns(df, value_cols, factor_col) ==
    LET names == [k \in 1..Len(value_cols) |-> AdjName(value_cols[k])]
        source(n) == value_cols[Min({k \in 1..Len(names) : names[k] = n})]
    IN  IF \/ HasDuplicates(names)
           \/ \E k \in 1..Len(value_cols) : value_cols[k] \notin ColSet(df)
           \/ (value_cols # <<>> /\ factor_col \notin ColSet(df))
        THEN [raised |-> TRUE, df |-> EmptyFrame]
        ELSE [raised |-> FALSE,
              df |-> Frame(df.cols \o SelectSeq(names, LAMBDA n : n \notin ColSet(df)),
                        [i \in 1..Len(df.rows) |->
                            [c \in ColSet(df) \cup SeqToSet(names) |->
                                IF c \in SeqToSet(names)
                                THEN MulCell(df.rows[i][source(c)], df.rows[i][factor_col])
                                ELSE df.rows[i][c]]])]

\* df.select(columns): [raised, df].
select_columns(df, columns) ==
    IF HasDuplicates(columns) \/ \E k \in 1..Len(columns) : columns[k] \notin ColSet(df)
    THEN [raised |-> TRUE, df |-> EmptyFrame]
    ELSE [raised |-> FALSE,
          df |-> Frame(columns,
                    [i \in 1..Len(df.rows) |-> [c \in SeqToSet(columns) |-> df.rows[i][c]]])]

\* compute_adjustment_factors on the prepared frames, the entities visited in
\* the given order: the rows of each entity by date, with their cum_factor.
compute_adjustment_factors(prices, adj, order) ==
    LET of_isin(isin) ==
            LET p_rows == SelectSeq(prices, LAMBDA r : r.ISIN = isin)
                sorted == SortByKey(p_rows, [i \in 1..Len(p_rows) |-> p_rows[i].price_date])
                factors == prices_isin_frame(prices, adj, isin)
            IN  [i \in 1..Len(sorted) |->
                    [ISIN |-> sorted[i].ISIN, fsym_id |-> sorted[i].fsym_id,
                     price_date |-> sorted[i].price_date, currency |-> sorted[i].currency,
                     price |-> sorted[i].price, shares |-> sorted[i].shares,
                     cum_factor |-> factors[i].cum_factor]]
    IN  Flatten([k \in 1..Len(order) |-> of_isin(order[k])])

\* pl_prices.with_columns(pl.lit(1.0).alias("cum_factor"))
with_unit_factor(prices) ==
    [i \in 1..Len(prices) |->
        [ISIN |-> prices[i].ISIN, fsym_id |-> prices[i].fsym_id,
         price_date |-> prices[i].price_date, currency |-> prices[i].currency,
         price |-> prices[i].price, shares |-> prices[i].shares,
         cum_factor |-> OneFactor]]


\* A frame over the columns cols from rows given as records.
FrameOf(cols, rows) ==
    Frame(cols, [i \in 1..Len(rows) |-> [c \in SeqToSet(cols) |-> rows[i][c]]])

\* get_prices up to _prepare_pl_dfs.
get_prices_prepared(isins, fields, start, end) ==
    LET df_isin_map == get_isin_map(isins)
        fsym_ids == {df_isin_map[i].fsym_id : i \in 1..Len(df_isin_map)}
        resolved_fields == resolve_price_fields(fields, PriceTableColumns)
    IN  prepare_pl_dfs(get_prices_raw(fsym_ids, resolved_fields, start, end),
            get_adjustment_factors(fsym_ids, start), df_isin_map)

\* get_prices, the entities visited by compute_adjustment_factors in the given
\* order: [raised, warnings, df, queries].
get_prices(isins, fields, adjust, start, end, order) ==
    LET df_isin_map == get_isin_map(isins)
        fsym_ids == {df_isin_map[i].fsym_id : i \in 1..Len(df_isin_map)}
        resolved_fields == resolve_price_fields(fields, PriceTableColumns)
        warned_for == unresolved_price_fields(fields, PriceTableColumns)
        df_prices == get_prices_raw(fsym_ids, resolved_fields, start, end)
        queries == <<"sym_v1.sym_isin", "INFORMATION_SCHEMA.COLUMNS">>
                   \o (IF resolved_fields # <<>> /\ df_prices.queried
                       THEN <<"fgp_v1.fgp_global_prices", "fgp_v1.fgp_ca_adj_factors">>
                       ELSE <<>>)
        prep == get_prices_prepared(isins, fields, start, end)
        rows == IF adjust /\ order # <<>>
                THEN compute_adjustment_factors(prep.pl_prices, prep.pl_adj, order)
                ELSE with_unit_factor(prep.pl_prices)
        prices_frame == FrameOf(df_prices.cols \o <<"ISIN", "cum_factor">>, rows)
        split == split_fields(resolved_fields)
        result_columns == <<"price_date", "ISIN">> \o split.non_adjustable_fields
                          \o split.adjustable_fields
        adjusting == adjust /\ split.adjustable_fields # <<>>
        adjusted == IF adjusting
                    THEN adjust_columns(prices_frame, split.adjustable_fields, "cum_factor")
                    ELSE [raised |-> FALSE, df |-> prices_frame]
        final_columns == IF adjusting
                         THEN result_columns \o [k \in 1..Len(split.adjustable_fields) |->
                                                    AdjName(split.adjustable_fields[k])]
                         ELSE result_columns
    IN  IF resolved_fields = <<>>
        THEN [raised |-> FALSE, warnings |-> Append(warned_for, "no valid field"),
              df |-> EmptyFrame, queries |-> queries]
        ELSE IF prep.raised \/ adjusted.raised
        THEN [raised |-> TRUE, warnings |-> warned_for, df |-> EmptyFrame,
              queries |-> queries]
        ELSE [raised |-> select_columns(adjusted.df, final_columns).raised,
              warnings |-> warned_for,
              df |-> select_columns(adjusted.df, final_columns).df,
              queries |-> queries]

\* pl_prices["ISIN"].unique() of the call, empty when the call stops before.
price_isins(isins, fields, start, end) ==
    IF resolve_price_fields(fields, PriceTableColumns) = <<>>
       \/ get_prices_prepared(isins, fields, start, end).raised
    THEN {}
    ELSE UniqueIsins(get_prices_prepared(isins, fields, start, end).pl_prices)

NoPriceResult == [raised |-> FALSE, df |-> EmptyFrame]

InitPrices ==
    /\ gp_isins \in SeqsUpTo(RequestableIsins, MaxIsins)
    /\ gp_fields \in SeqsUpTo(RequestableFields, MaxPriceFields)
    /\ gp_adjust \in BOOLEAN
    /\ gp_start \in Dates
    /\ gp_end \in gp_start..MaxDate
    /\ gp_result = NoPriceResult
    /\ gp_warnings = <<>>
    /\ pc_gp = "start"
    /\ db_log = <<>>
    /\ IdleAdj /\ IdleRes /\ IdleFund /\ IdleEst /\ IdleJoin /\ IdleOrch /\ IdleAc

\* One call of get_prices.
GetPrices ==
    /\ pc_gp = "start"
    /\ \E order \in Orders(price_isins(gp_isins, gp_fields, gp_start, gp_end)) :
       \E r \in {get_prices(gp_isins, gp_fields, gp_adjust, gp_start, gp_end, order)} :
          /\ gp_result' = [raised |-> r.raised, df |-> r.df]
          /\ gp_warnings' = r.warnings
          /\ db_log' = db_log \o r.queries
          /\ pc_gp' = IF r.raised THEN "raised" ELSE "done"
    /\ UNCHANGED <<gp_isins, gp_fields, gp_adjust, gp_start, gp_end,
                   vars_adj, vars_res, vars_fund, vars_est, vars_join, vars_orch, vars_ac>>

NextPrices == GetPrices

SpecPrices == InitPrices /\ [][NextPrices]_vars


----------------------------------------------------------------------------
(* Orchestrator entry points: load_prices, load_fundamentals, load_estimates. *)

\* df_price.rename({"price_date": "date"}): [raised, df].
rename_price_date(df) ==
    IF "price_date" \notin ColSet(df) THEN [raised |-> TRUE, df |-> EmptyFrame]
    ELSE [raised |-> FALSE,
          df |-> Frame([k \in 1..Len(df.cols) |->
                           IF df.cols[k] = "price_date" THEN "date" ELSE df.cols[k]],
                    [i \in 1..Len(df.rows) |->
                        [c \in (ColSet(df) \ {"price_date"}) \cup {"date"} |->
                            IF c = "date" THEN df.rows[i]["price_date"]
                            ELSE df.rows[i][c]]])]

\* load_prices without its `if not price_fields` short-circuit.
LoadPricesUnguarded ==
    /\ pc_gp = "start"
    /\ \E order \in Orders(price_isins(gp_isins, gp_fields, gp_start, gp_end)) :
       \E r \in {get_prices(gp_isins, gp_fields, gp_adjust, gp_start, gp_end, order)} :
       \E renamed \in {rename_price_date(r.df)} :
          /\ gp_result' = [raised |-> r.raised \/ renamed.raised, df |-> renamed.df]
          /\ gp_warnings' = r.warnings
          /\ db_log' = db_log \o r.queries
          /\ pc_gp' = IF r.raised \/ renamed.raised THEN "raised" ELSE "done"
    /\ UNCHANGED <<gp_isins, gp_fields, gp_adjust, gp_start, gp_end,
                   vars_adj, vars_res, vars_fund, vars_est, vars_join, vars_orch, vars_ac>>

\* load_prices: the short-circuit, else get_prices and the rename.
LoadPrices ==
    /\ pc_gp = "start"
    /\ IF gp_fields = <<>>
       THEN /\ gp_result' = [raised |-> FALSE, df |-> EmptyFrame]
            /\ gp_warnings' = gp_warnings
            /\ db_log' = db_log
            /\ pc_gp' = "done"
       ELSE \E order \in Orders(price_isins(gp_isins, gp_fields, gp_start, gp_end)) :
            \E r \in {get_prices(gp_isins, gp_fields, gp_adjust, gp_start, gp_end, order)} :
            \E renamed \in {rename_price_date(r.df)} :
               /\ gp_result' = [raised |-> r.raised \/ renamed.raised, df |-> renamed.df]
               /\ gp_warnings' = r.warnings
               /\ db_log' = db_log \o r.queries
               /\ pc_gp' = IF r.raised \/ renamed.raised THEN "raised" ELSE "done"
    /\ UNCHANGED <<gp_isins, gp_fields, gp_adjust, gp_start, gp_end,
                   vars_adj, vars_res, vars_fund, vars_est, vars_join, vars_orch, vars_ac>>

\* One call of one of the three entry points.
InitOrch == InitPrices \/ InitFund \/ InitLoadEstimates

NextOrch == LoadPrices \/ NextFund \/ LoadEstimates

SpecOrch == InitOrch /\ [][NextOrch]_vars

\* C16: a call of load_prices, load_fundamentals or load_estimates with an
\* empty field list (for load_estimates: no items or no table types) returns
\* an empty result, does not raise and sends nothing to the database.
C16_EmptyRequestShortCircuits ==
    /\ (pc_gp \in {"done", "raised"} /\ gp_fields = <<>>) =>
          /\ pc_gp = "done"
          /\ gp_result.df = EmptyFrame
          /\ db_log = <<>>
    /\ (pc_fund \in {"fetched", "done", "raised"} /\ req_fields = <<>>) =>
          /\ pc_fund = "done"
          /\ fund_panel = EmptyFrame
          /\ db_log = <<>>
    /\ (pc_orch \in {"done", "raised"} /\ (est_items = <<>> \/ est_tables = <<>>)) =>
          /\ pc_orch = "done"
          /\ DOMAIN estimates_result = {}
          /\ db_log = <<>>

\* load_prices returned for an empty field list and a non-empty entity list.
C16_Witness ==
    /\ pc_gp = "done"
    /\ gp_fields = <<>>
    /\ gp_isins # <<>>
    /\ gp_result.df = EmptyFrame


----------------------------------------------------------------------------
(* Properties of the price loader.                                          *)

PricesFinished == pc_gp \in {"done", "raised"}

\* The identifiers of the request that the mapping step returned.
MappedIsins == {IsinCoverage[i].isin : i \in 1..Len(IsinCoverage)} \cap SeqToSet(gp_isins)

\* C17 (get_prices): with a non-empty field list and no mapped identifier,
\* the entity list being empty or holding unmapped identifiers only,
\* get_prices returns a result without rows and does not raise.
C17_NoEntityGivesEmptyPrices ==
    (PricesFinished /\ gp_fields # <<>> /\ MappedIsins = {}) =>
        /\ pc_gp = "done"
        /\ gp_result.df.rows = <<>>

\* What get_prices does deliver without a mapped identifier: the empty
\* result when no requested field is a column of the price table.
C17_NoValidFieldGivesEmptyPrices ==
    (PricesFinished /\ resolve_price_fields(gp_fields, PriceTableColumns) = <<>>) =>
        /\ pc_gp = "done"
        /\ gp_result.df = EmptyFrame

\* C17 (get_estimates): without a mapped identifier get_estimates returns the
\* empty frame, does not raise and queries no estimates table.
C17_NoEntityGivesEmptyEstimates ==
    (pc_est \in {"done", "raised"} /\ fsym_ids_of(isin_map) = {}) =>
        /\ pc_est = "done"
        /\ fe_result = EmptyFrame
        /\ fe_queries = <<>>


----------------------------------------------------------------------------
(* The two loaders that map identifiers: get_prices and get_estimates.      *)

InitLoaders == InitPrices \/ InitEst

NextLoaders == NextPrices \/ NextEst

SpecLoaders == InitLoaders /\ [][NextLoaders]_vars

\* The request of get_prices without its unmapped identifiers.
MappedRequest == SelectSeq(gp_isins, LAMBDA i : i \in MappedIsins)

\* The identifiers get_estimates asked the mapping for; E9 is never mapped.
EstRequestIsins == <<"E1", "E2", "E9">>

\* C18: when some identifiers of the request are mapped and others are not,
\* every row get_prices returns carries a mapped identifier, and the call
\* ends as the call for the mapped identifiers alone does: same result, same
\* warnings, an error only where that call has one. Every row get_estimates
\* returns carries an identifier of the mapping, and the call does not raise.
C18_UnmappedVanishSilently ==
    /\ (PricesFinished /\ MappedIsins # {} /\ ~(SeqToSet(gp_isins) \subseteq MappedIsins)) =>
          /\ \A i \in 1..Len(gp_result.df.rows) : gp_result.df.rows[i]["ISIN"] \in MappedIsins
          /\ \E order \in Orders(price_isins(MappedRequest, gp_fields, gp_start, gp_end)) :
                LET r == get_prices(MappedRequest, gp_fields, gp_adjust, gp_start, gp_end, order)
                IN  /\ gp_result = [raised |-> r.raised, df |-> r.df]
                    /\ gp_warnings = r.warnings
    /\ (pc_est \in {"done", "raised"} /\ isin_map # <<>>) =>
          /\ pc_est = "done"
          /\ \A i \in 1..Len(fe_result.rows) :
                \E k \in 1..Len(isin_map) :
                    /\ fe_result.rows[i]["ISIN"] = Some(isin_map[k].isin)
                    /\ InSeq(isin_map[k].isin, EstRequestIsins)

\* get_prices returned rows for a request naming E1 and the unmapped E9.
C18_Witness ==
    /\ pc_gp = "done"
    /\ "E9" \in SeqToSet(gp_isins)
    /\ "E1" \in SeqToSet(gp_isins)
    /\ gp_result.df.rows # <<>>
    /\ gp_warnings = <<>>


\* The adjustable fields of the request that get_prices resolved.
AdjustableRequested ==
    split_fields(resolve_price_fields(gp_fields, PriceTableColumns)).adjustable_fields

\* C19: a call of get_prices with adjust=False returns, for every requested
\* adjustable field, the derived column <field>_adj, equal to the raw column
\* in every row, so that the table has the columns of the call with
\* adjust=True.
C19_AdjColumnsWithoutAdjust ==
    (pc_gp = "done" /\ ~gp_adjust /\ gp_result.df # EmptyFrame) =>
        /\ \A k \in 1..Len(AdjustableRequested) :
              /\ AdjName(AdjustableRequested[k]) \in ColSet(gp_result.df)
              /\ \A i \in 1..Len(gp_result.df.rows) :
                    gp_result.df.rows[i][AdjName(AdjustableRequested[k])]
                        = gp_result.df.rows[i][AdjustableRequested[k]]
        /\ \A order \in Orders(price_isins(gp_isins, gp_fields, gp_start, gp_end)) :
              gp_result.df.cols
                  = get_prices(gp_isins, gp_fields, TRUE, gp_start, gp_end, order).df.cols

\* What the code returns with adjust=False: the requested columns only.
C19_NoAdjColumnsWithoutAdjust ==
    (pc_gp = "done" /\ ~gp_adjust /\ gp_result.df # EmptyFrame) =>
        /\ \A k \in 1..Len(AdjustableRequested) :
              AdjName(AdjustableRequested[k]) \notin ColSet(gp_result.df)
        /\ "cum_factor" \notin ColSet(gp_result.df)


----------------------------------------------------------------------------
(* adjust_columns on arbitrary frames.                                      *)

AdjustFrameColumns == <<"price_date", "ISIN", "price", "volume", "cum_factor">>

\* The rows of the frames: prices and volumes with nulls, factors 1.0 and 0.5.
AdjustRows ==
    [price_date : {Some(1)}, ISIN : {Some("E1")},
     price : {NullFactor, <<10, 1>>, <<5, 2>>},
     volume : {NullFactor, <<100, 1>>},
     cum_factor : {OneFactor, <<1, 2>>}]

\* The lists of columns to adjust: no column twice.
ValueColumnLists ==
    {<<>>, <<"price">>, <<"volume">>, <<"price", "volume">>, <<"volume", "price">>}

NoAdjustResult == [raised |-> FALSE, df |-> EmptyFrame]

InitAdjust ==
    /\ ac_df \in {Frame(AdjustFrameColumns, rows) : rows \in SeqsUpTo(AdjustRows, MaxAdjustRows)}
    /\ ac_value_cols \in ValueColumnLists
    /\ ac_result = NoAdjustResult
    /\ pc_ac = "start"
    /\ db_log = <<>>
    /\ IdleAdj /\ IdleRes /\ IdleFund /\ IdleEst /\ IdleJoin /\ IdleOrch /\ IdleGp

\* One call adjust_columns(df, value_cols).
AdjustColumns ==
    /\ pc_ac = "start"
    /\ \E r \in {adjust_columns(ac_df, ac_value_cols, "cum_factor")} :
          /\ ac_result' = r
          /\ pc_ac' = IF r.raised THEN "raised" ELSE "done"
    /\ UNCHANGED <<ac_df, ac_value_cols, db_log, vars_adj, vars_res, vars_fund, vars_est,
                   vars_join, vars_orch, vars_gp>>

NextAdjust == AdjustColumns

SpecAdjust == InitAdjust /\ [][NextAdjust]_vars

UnitFactors == \A i \in 1..Len(ac_df.rows) : ac_df.rows[i]["cum_factor"] = OneFactor

\* C20: adjust_columns on a frame whose factor column is 1.0 in every row
\* returns the frame with, for every column c to adjust, a column c_adj equal
\* to c row by row; c and every other column are as they were.
C20_UnitFactorIsIdentity ==
    (pc_ac \in {"done", "raised"} /\ UnitFactors) =>
        /\ pc_ac = "done"
        /\ Len(ac_result.df.rows) = Len(ac_df.rows)
        /\ ac_result.df.cols
               = ac_df.cols \o [k \in 1..Len(ac_value_cols) |-> AdjName(ac_value_cols[k])]
        /\ \A i \in 1..Len(ac_df.rows) :
              /\ \A k \in 1..Len(ac_value_cols) :
                    ac_result.df.rows[i][AdjName(ac_value_cols[k])]
                        = ac_df.rows[i][ac_value_cols[k]]
              /\ \A c \in ColSet(ac_df) : ac_result.df.rows[i][c] = ac_df.rows[i][c]

\* Two rows with factor 1.0, one of them with a price, both columns adjusted.
C20_Witness ==
    /\ pc_ac = "done"
    /\ UnitFactors
    /\ Len(ac_df.rows) = 2
    /\ ac_value_cols = <<"price", "volume">>
    /\ \E i \in 1..2 : ac_df.rows[i]["price"] = <<10, 1>>
    /\ \E i \in 1..2 : ac_result.df.rows[i]["price_adj"] = <<10, 1>>

\* With a factor other than 1.0 the derived column differs from its column.
AdjustScalesReached ==
    /\ pc_ac = "done"
    /\ InSeq("price", ac_value_cols)
    /\ \E i \in 1..Len(ac_df.rows) :
          /\ ac_df.rows[i]["price"] = <<10, 1>>
          /\ ac_result.df.rows[i]["price_adj"] = <<5, 1>>


\* ---------------------------------------------------------------------------
\* The split of the price fields in the result of get_prices.

\* The row of fgp_v1.fgp_global_prices behind a returned (ISIN, price_date).
SourceRow(isin, date) ==
    PriceTable[CHOOSE k \in 1..Len(PriceTable) :
                  /\ PriceTable[k].price_date = date
                  /\ \E m \in 1..Len(IsinCoverage) :
                        /\ IsinCoverage[m].isin = isin
                        /\ IsinCoverage[m].fsym_id = PriceTable[k].fsym_id]

\* The requested fields that are columns of the price table, in request order.
AvailableRequested == SelectSeq(gp_fields, LAMBDA f : InSeq(f, PriceTableColumns))

\* C21: in a table returned by get_prices the columns are price_date, ISIN,
\* the resolved fields outside ADJUSTABLE_COLUMNS (listed as non-adjustable or
\* not listed at all), the resolved fields inside ADJUSTABLE_COLUMNS, and a
\* derived <field>_adj column for the latter only (when adjust is set); every
\* field outside ADJUSTABLE_COLUMNS carries the value stored in the price table.
C21_AllowListGovernsAdjustment ==
    (pc_gp = "done" /\ AvailableRequested # <<>>) =>
        LET adjustable == SelectSeq(AvailableRequested, LAMBDA f : f \in ADJUSTABLE_COLUMNS)
            others == SelectSeq(AvailableRequested, LAMBDA f : f \notin ADJUSTABLE_COLUMNS)
            derived == IF gp_adjust
                       THEN [k \in 1..Len(adjustable) |-> AdjName(adjustable[k])]
                       ELSE <<>>
            df == gp_result.df
        IN  /\ SeqToSet(adjustable) \cap SeqToSet(others) = {}
            /\ SeqToSet(adjustable) \cup SeqToSet(others) = SeqToSet(AvailableRequested)
            /\ df.cols = <<"price_date", "ISIN">> \o others \o adjustable \o derived
            /\ \A f \in SeqToSet(others) : AdjName(f) \notin ColSet(df)
            /\ \A i \in 1..Len(df.rows) : \A f \in SeqToSet(others) :
                  df.rows[i][f] = SourceRow(df.rows[i]["ISIN"], df.rows[i]["price_date"])[f]

\* An adjusted call for an unlisted field and an adjustable one returned rows:
\* price has its derived column, shares has none.
C21_Witness ==
    /\ pc_gp = "done"
    /\ gp_adjust
    /\ gp_fields = <<"shares", "price">>
    /\ Len(gp_result.df.rows) > 1
    /\ gp_result.df.cols = <<"price_date", "ISIN", "shares", "price", "price_adj">>
    /\ \E i \in 1..Len(gp_result.df.rows) :
          /\ gp_result.df.rows[i]["shares"] = <<5, 1>>
          /\ gp_result.df.rows[i]["price_adj"] # gp_result.df.rows[i]["price"]


\* ---------------------------------------------------------------------------
\* The column-name cache over the lifetime of one FundamentalDataLoader, with
\* the schema changing between calls.

\* The database gains a column in a table of the catalog.
AlterTable ==
    /\ \E t \in SeqToSet(fundamental_tables) : \E c \in StoredColumns \ db_columns[t] :
          db_columns' = [db_columns EXCEPT ![t] = @ \cup {c}]
    /\ UNCHANGED <<fundamental_tables, table_columns_cache, column_queries, req_fields,
                   req_frequency, resolved, warned, db_log,
                   vars_adj, vars_fund, vars_est, vars_more>>

NextCache == NextRes \/ AlterTable

SpecCache == InitRes /\ [][NextCache]_vars


\* C22: on one loader instance the catalog query for a table is issued at most
\* once: a step only queries tables that have no cache entry yet, it queries
\* none of them twice, and an entry of the column-name cache is never changed
\* or removed, also when the schema has changed since it was cached.
C22_ColumnsQueriedOnce ==
    [][/\ \A t \in DOMAIN table_columns_cache :
             /\ t \in DOMAIN table_columns_cache'
             /\ table_columns_cache'[t] = table_columns_cache[t]
       /\ Len(column_queries') >= Len(column_queries)
       /\ SubSeq(column_queries', 1, Len(column_queries)) = column_queries
       /\ \A k \in (Len(column_queries) + 1)..Len(column_queries') :
             column_queries'[k] \notin DOMAIN table_columns_cache
       /\ ~HasDuplicates(column_queries')
       /\ DOMAIN table_columns_cache' = SeqToSet(column_queries')]_vars

\* Both resolutions ran on the instance, every catalog table was queried, and
\* a cached entry differs from what the altered schema now holds.
C22_Witness ==
    /\ resolved[TRUE].called /\ resolved[FALSE].called
    /\ Len(fundamental_tables) = 2
    /\ Len(column_queries) = 2
    /\ \E t \in DOMAIN table_columns_cache :
          table_columns_cache[t] # {Lower(c) : c \in db_columns[t]}


\* ---------------------------------------------------------------------------
\* Duplicate names in the field list of get_fundamentals.

\* The resolution of a field list on a fresh loader over the same schema.
FreshResolution(fields) ==
    resolve_field_table_mapping(fields, req_frequency, req_fallback,
        fundamental_tables, db_columns, [cache |-> <<>>, queries |-> <<>>]).resolved

\* C23: the resolution map of a field list is the map of the list without its
\* duplicates, with one entry per distinct name, and a resolved field is a
\* column of at most one fetched frame, where it occurs once.
C23_DuplicatesAreIdempotent ==
    (pc_fund \in {"fetched", "raised", "done"} /\ resolved[req_fallback].called) =>
        LET map == fund_out.field_table_map
        IN  /\ map = FreshResolution(Dedupe(req_fields))
            /\ map = resolved[req_fallback].map
            /\ DOMAIN map = SeqToSet(req_fields)
            /\ \A f \in DOMAIN map : map[f] # None => map[f] \in SchemaTables
            /\ \A i \in 1..Len(fund_out.dataframes) :
                  ~HasDuplicates(fund_out.dataframes[i].cols)
            /\ \A f \in DOMAIN map :
                  map[f] # None =>
                      Cardinality({i \in 1..Len(fund_out.dataframes) :
                                      f \in ColSet(fund_out.dataframes[i])}) <= 1

\* A list naming one field twice was resolved and fetched.
C23_Witness ==
    /\ pc_fund = "fetched"
    /\ req_fields = <<"ff_eps", "ff_eps">>
    /\ DOMAIN fund_out.field_table_map = {"ff_eps"}
    /\ fund_out.field_table_map["ff_eps"] = AdvancedQf
    /\ Len(fund_out.dataframes) = 1
    /\ fund_out.dataframes[1].cols = <<"ISIN", "date", "ff_eps">>
    /\ Len(fund_out.dataframes[1].rows) > 1


\* ---------------------------------------------------------------------------
\* Observations of later series in join_on_calendar.

EntityKeyed(df) == "ISIN" \in ColSet(df)

\* Row r of series n is in the joined result: a row with its date and entity
\* and with its value in every column that series n is the first to bring.
ObservationKept(n, r) ==
    \E i \in 1..Len(join_result.df.rows) :
        /\ join_result.df.rows[i]["ref_date"] = r[DateColumnOf(join_dfs[n])]
        /\ join_result.df.rows[i]["ISIN"] = r["ISIN"]
        /\ \A c \in ColSet(join_dfs[n]) \ {"ISIN", "date", "price_date"} :
              FirstSupplier(c) = n => join_result.df.rows[i][c] = r[c]

\* The first series has a row for the date and the entity of r.
FirstSeriesHas(n, r) ==
    \E k \in 1..Len(join_dfs[1].rows) :
        /\ join_dfs[1].rows[k][DateColumnOf(join_dfs[1])] = r[DateColumnOf(join_dfs[n])]
        /\ join_dfs[1].rows[k]["ISIN"] = r["ISIN"]

\* C24: when join_on_calendar aligns two or more entity-keyed series, every
\* row of every series is in the result with its date, entity and values,
\* whether or not the first series has a row for that date and entity.
C24_NoObservationLost ==
    (/\ pc_join = "done"
     /\ Len(join_dfs) >= 2
     /\ \A n \in 1..Len(join_dfs) : EntityKeyed(join_dfs[n])) =>
        \A n \in 1..Len(join_dfs) : \A k \in 1..Len(join_dfs[n].rows) :
            ObservationKept(n, join_dfs[n].rows[k])

\* What the left joins keep: the rows of the first series, and the rows of a
\* later series for which the first series has the date and the entity.
C24_MatchedObservationsKept ==
    (/\ pc_join = "done"
     /\ Len(join_dfs) >= 2
     /\ \A n \in 1..Len(join_dfs) : EntityKeyed(join_dfs[n])) =>
        \A n \in 1..Len(join_dfs) : \A k \in 1..Len(join_dfs[n].rows) :
            FirstSeriesHas(n, join_dfs[n].rows[k])
                <=> ObservationKept(n, join_dfs[n].rows[k])


\* ---------------------------------------------------------------------------
\* Where a resolved table comes from.

\* C25: whatever the flag, a table that _resolve_field_table_mapping chose for
\* a field is a table of the catalog whose columns, lower-cased, contain the
\* lower-cased field name; without fallback it is also in the priority list of
\* the requested frequency, so that a frequency without a priority list
\* resolves every field to None.
C25_ChosenTableHasField ==
    \A fb \in BOOLEAN :
        resolved[fb].called =>
            /\ \A f \in DOMAIN resolved[fb].map :
                  LET t == resolved[fb].map[f]
                  IN  t # None =>
                          /\ InSeq(t, fundamental_tables)
                          /\ Lower(f) \in {Lower(c) : c \in db_columns[t]}
                          /\ t \in DOMAIN table_columns_cache
                          /\ Lower(f) \in table_columns_cache[t]
                          /\ (~fb => InSeq(t, RequestPriority))
            /\ (~fb /\ RequestPriority = <<>>) =>
                  \A f \in DOMAIN resolved[fb].map : resolved[fb].map[f] = None

\* Frequency cf has no priority list: FF_EPS, stored by a catalog table,
\* resolves to None without fallback and to that table with it.
C25_Witness ==
    /\ resolved[TRUE].called /\ resolved[FALSE].called
    /\ req_frequency = "cf"
    /\ InSeq("FF_EPS", req_fields)
    /\ resolved[FALSE].map["FF_EPS"] = None
    /\ resolved[TRUE].map["FF_EPS"] # None
    /\ "FF_EPS" \in db_columns[resolved[TRUE].map["FF_EPS"]]


\* ---------------------------------------------------------------------------
\* The order of the estimates tables and what each is asked for.

\* The requested items the table would return rows for in this call.
ItemsHeldBy(table) ==
    IF fe_db[table].raises THEN {}
    ELSE LET df == read_database(fe_db[table], fe_items, fsym_ids_of(isin_map))
         IN  {df[i].fe_item : i \in 1..Len(df)}

\* The collected frames that have rows of the item.
FramesWith(item) ==
    {k \in 1..Len(collected) : \E i \in 1..Len(collected[k]) : collected[k][i].fe_item = item}

\* C26: get_estimates queries the advanced table first and the basic table
\* second, the basic table only for the items the advanced table returned no
\* row for and not at all when the advanced table returned every requested
\* item; the rows of one item come from one table only, and every non-null
\* row of the result is a row of that table.
C26_AdvancedThenBasicForTheRest ==
    /\ \A k \in 1..Len(fe_queries) : fe_queries[k].table = tables_to_try[k]
    /\ Len(fe_queries) >= 1 => fe_queries[1].items = fe_items
    /\ Len(fe_queries) = 2 =>
          /\ fe_queries[2].items = fe_items \ ItemsHeldBy(tables_to_try[1])
          /\ fe_queries[2].items # {}
    /\ (fe_items # {} /\ fe_items \subseteq ItemsHeldBy(tables_to_try[1])) =>
          Len(fe_queries) <= 1
    /\ \A item \in fe_items : Cardinality(FramesWith(item)) <= 1
    /\ pc_est = "done" =>
          \A i \in 1..Len(fe_result.rows) :
              fe_result.rows[i]["value"] # Null =>
                  \E k \in FramesWith(fe_result.rows[i]["fe_item"]) :
                      \E j \in 1..Len(collected[k]) :
                          /\ collected[k][j].fe_item = fe_result.rows[i]["fe_item"]
                          /\ collected[k][j].fe_fp_end = fe_result.rows[i]["fe_fp_end"]
                          /\ collected[k][j].currency = fe_result.rows[i]["currency"]
                          /\ collected[k][j].value = fe_result.rows[i]["value"]

\* The advanced table returned EPS and not BPS; the basic table, which holds
\* both, was asked for BPS alone, and the result has one EPS and one BPS row.
C26_Witness ==
    /\ pc_est = "done"
    /\ fe_items = {"EPS", "BPS"}
    /\ Len(fe_queries) = 2
    /\ fe_queries[2] = [table |-> tables_to_try[2], items |-> {"BPS"}]
    /\ ItemsHeldBy(tables_to_try[1]) = {"EPS"}
    /\ ItemsHeldBy(tables_to_try[2]) = {"EPS", "BPS"}
    /\ Len(fe_result.rows) = 2
    /\ \A i \in 1..2 : fe_result.rows[i]["value"] # Null


\* ---------------------------------------------------------------------------
\* The adjustment events left out by the restriction to effective_date >=
\* start_date.

\* The events of fgp_v1.fgp_ca_adj_factors for the entity, unrestricted.
AllEvents(isin) ==
    SelectSeq(AdjFactorTable,
        LAMBDA e : \E m \in 1..Len(IsinCoverage) :
                      IsinCoverage[m].isin = isin /\ IsinCoverage[m].fsym_id = e.fsym_id)

\* The cumulative factor of an observation computed from all events.
FullFactor(isin, date) ==
    cum_factor_from(OneFactor, future_factors(AllEvents(isin), date))

\* C27: every adjusted price that get_prices returns is the price times the
\* cumulative factor computed from all events of the entity, although only
\* the events with effective_date >= start_date were fetched.
C27_RestrictionKeepsFactors ==
    (pc_gp = "done" /\ gp_adjust /\ "price_adj" \in ColSet(gp_result.df)) =>
        \A i \in 1..Len(gp_result.df.rows) :
            LET row == gp_result.df.rows[i]
            IN  /\ gp_start <= row["price_date"] /\ row["price_date"] <= gp_end
                /\ row["price_adj"]
                       = MulCell(row["price"], FullFactor(row["ISIN"], row["price_date"]))

\* An event of the entity before start_date was not fetched, and the returned
\* price is adjusted by the later event.
C27_Witness ==
    /\ pc_gp = "done" /\ gp_adjust
    /\ gp_start = 2
    /\ "price_adj" \in ColSet(gp_result.df)
    /\ \E i \in 1..Len(gp_result.df.rows) :
          LET row == gp_result.df.rows[i]
          IN  /\ row["ISIN"] = "E2"
              /\ \E k \in 1..Len(AllEvents("E2")) :
                    AllEvents("E2")[k].effective_date < gp_start
              /\ row["price"] = <<20, 1>>
              /\ row["price_adj"] = <<40, 1>>

====
